---------------------------- MODULE Spec2Model ----------------------------
(***************************************************************************)
(* Elevation profile engine of Little Navmap (src/profile/profilewidget.cpp)*)
(*                                                                         *)
(* One foreground (GUI event loop) context runs the widget's handlers; the *)
(* background computations started with QtConcurrent::run run             *)
(* fetchRouteElevationsThread.  A handler is one atomic action, except at  *)
(* a blocking future.waitForFinished(), where the foreground stays at the  *)
(* wait (fg) while the computations take their steps.                      *)
(*                                                                         *)
(* Geometry is the slice of the globe along one meridian: a position is a  *)
(* latitude in arc minutes, so that the great-circle distance between two  *)
(* positions is the difference of their latitudes in nautical miles.       *)
(* Altitudes are whole feet, terrain heights whole meters.                 *)
(***************************************************************************)
EXTENDS Integers, Sequences, FiniteSets, TLC

(* ------------------------------ constants ------------------------------ *)

UPDATE_TIMEOUT == 1000
X0 == 65
Y0 == 14

\* Bounds of the model
MaxRoute == 3
MaxLat == 1
MaxRuns == 2
TickMs == 1000
GroundStepM == 1600
CruisingAlt == 10000
WidgetWidth == 330
WidgetHeight == 114
NarrowWidth == 136

(* ------------------------------ arithmetic ------------------------------ *)

Abs(x) == IF x < 0 THEN -x ELSE x

Max(a, b) == IF a > b THEN a ELSE b

Min(a, b) == IF a < b THEN a ELSE b

\* static_cast<int> of the quotient n / d (d > 0): truncation toward zero
TruncDiv(n, d) == IF n >= 0 THEN n \div d ELSE -((-n) \div d)

\* std::ceil(n / d) for d > 0
CeilDiv(n, d) == -((-n) \div d)

(* ------------------------------ float arithmetic ------------------------------ *)

\* A value of the type float (IEEE 754 binary32, round to nearest, ties to even):
\* a number s * m * 2^e with m = 0 or 2^23 <= m < 2^24, an infinity, or no number.
\* The numbers of the model are far from the ends of the range of the exponent, and
\* the two zeros of the type, which compare equal, are the one value FZero.
Float(cls, s, m, e) == [cls |-> cls, s |-> s, m |-> m, e |-> e]

FZero == Float("num", 1, 0, 0)

FNaN == Float("nan", 1, 0, 0)

FInf(s) == Float("inf", s, 0, 0)

IsZero(a) == a.cls = "num" /\ a.m = 0

\* The number of binary digits of n >= 0
RECURSIVE BitLen(_)
BitLen(n) == IF n = 0 THEN 0 ELSE 1 + BitLen(n \div 2)

\* The float nearest to s * (n + f) * 2^e, where 0 <= f < 1 and f > 0 if and only if
\* sticky; n has more than 24 digits if sticky
RoundToFloat(s, n, e, sticky) ==
    IF n = 0 THEN FZero
    ELSE LET len == BitLen(n)
         IN  IF len <= 24
             THEN Float("num", s, n * 2^(24 - len), e - (24 - len))
             ELSE LET sh == len - 24
                      q == n \div 2^sh
                      r == n % 2^sh
                      half == 2^(sh - 1)
                      up == r > half \/ (r = half /\ (sticky \/ q % 2 = 1))
                  IN  IF up /\ q + 1 = 2^24
                      THEN Float("num", s, 2^23, e + sh + 1)
                      ELSE Float("num", s, IF up THEN q + 1 ELSE q, e + sh)

\* The conversion of an int to float
FromInt(n) == RoundToFloat(IF n < 0 THEN -1 ELSE 1, Abs(n), 0, FALSE)

\* -a
FNeg(a) == IF IsZero(a) \/ a.cls = "nan" THEN a ELSE [a EXCEPT !.s = -a.s]

\* a * b: the product of the two mantissas has up to 48 digits and is computed in
\* halves of 12 digits
FMul(a, b) ==
    IF a.cls = "nan" \/ b.cls = "nan" THEN FNaN
    ELSE IF a.cls = "inf" \/ b.cls = "inf"
         THEN IF IsZero(a) \/ IsZero(b) THEN FNaN ELSE FInf(a.s * b.s)
         ELSE IF a.m = 0 \/ b.m = 0 THEN FZero
              ELSE LET a1 == a.m \div 4096
                       a0 == a.m % 4096
                       b1 == b.m \div 4096
                       b0 == b.m % 4096
                       mid == a1 * b0 + a0 * b1
                       low == (mid % 4096) * 4096 + a0 * b0
                       hi == a1 * b1 + mid \div 4096 + low \div 2^24
                       lo == low % 2^24
                   IN  RoundToFloat(a.s * b.s, hi * 64 + lo \div 2^18,
                                    a.e + b.e + 18, lo % 2^18 # 0)

\* The quotient q and the remainder r of n * 2^bits by d, for n = q0 * d + r0, in
\* steps of at most 7 digits
RECURSIVE LongDivision(_, _, _, _)
LongDivision(q0, r0, d, bits) ==
    IF bits = 0 THEN <<q0, r0>>
    ELSE LET c == Min(bits, 7)
         IN  LongDivision(q0 * 2^c + (r0 * 2^c) \div d, (r0 * 2^c) % d, d, bits - c)

\* a / b
FDiv(a, b) ==
    IF a.cls = "nan" \/ b.cls = "nan" THEN FNaN
    ELSE IF a.cls = "inf"
         THEN IF b.cls = "inf" THEN FNaN ELSE FInf(a.s * b.s)
         ELSE IF b.cls = "inf" THEN FZero
              ELSE IF b.m = 0
                   THEN IF a.m = 0 THEN FNaN ELSE FInf(a.s * b.s)
                   ELSE IF a.m = 0 THEN FZero
                        ELSE LET qr == LongDivision(a.m \div b.m, a.m % b.m, b.m, 26)
                             IN  RoundToFloat(a.s * b.s, qr[1], a.e - b.e - 26, qr[2] # 0)

\* a + b: the operand of the smaller exponent is shifted to the exponent of the
\* other one, with 6 digits more
FAdd(a, b) ==
    IF a.cls = "nan" \/ b.cls = "nan" THEN FNaN
    ELSE IF a.cls = "inf"
         THEN IF b.cls = "inf" /\ b.s # a.s THEN FNaN ELSE a
         ELSE IF b.cls = "inf" THEN b
              ELSE IF a.m = 0 THEN b
                   ELSE IF b.m = 0 THEN a
                        ELSE LET x == IF a.e >= b.e THEN a ELSE b
                                 y == IF a.e >= b.e THEN b ELSE a
                                 d == x.e - y.e
                                 big == x.m * 64
                                 small == IF d > 30 THEN 0 ELSE (y.m * 64) \div 2^d
                                 sticky == IF d > 30 THEN TRUE ELSE (y.m * 64) % 2^d # 0
                                 n == IF x.s = y.s THEN big + small
                                      ELSE big - small - (IF sticky THEN 1 ELSE 0)
                             IN  RoundToFloat(IF n < 0 THEN -x.s ELSE x.s, Abs(n),
                                              x.e - 6, sticky)

\* a - b
FSub(a, b) == FAdd(a, FNeg(b))

\* |a| < |b| for two floats that are not zero
MagnitudeLess(a, b) ==
    IF a.cls = "inf" THEN FALSE
    ELSE IF b.cls = "inf" THEN TRUE
         ELSE a.e < b.e \/ (a.e = b.e /\ a.m < b.m)

\* -1, 0 or 1 as a is negative, zero or positive
FSign(a) == IF IsZero(a) THEN 0 ELSE a.s

\* a < b
FLess(a, b) ==
    IF a.cls = "nan" \/ b.cls = "nan" THEN FALSE
    ELSE IF FSign(a) # FSign(b) THEN FSign(a) < FSign(b)
         ELSE IF FSign(a) = 0 THEN FALSE
              ELSE IF FSign(a) = 1 THEN MagnitudeLess(a, b) ELSE MagnitudeLess(b, a)

\* static_cast<int>(a): truncation toward zero; the cast of a value that is no number
\* or outside the range of int is undefined, nan is what it yields
FCast(a, nan) ==
    IF a.cls # "num" THEN nan
    ELSE IF a.e >= 0
         THEN IF a.e > 7 THEN nan ELSE a.s * a.m * 2^a.e
         ELSE IF -a.e > 30 THEN 0 ELSE a.s * (a.m \div 2^(-a.e))

\* atools::geo::meterToFeet
MeterToFeet(m) == TruncDiv(m * 3281, 1000)

\* atools::geo::meterToNm(a.distanceMeterTo(b)) on one meridian
DistanceNm(a, b) == Abs(a.lat - b.lat)

\* atools::geo::almostEqual, which is not part of the source: a and b differ by less
\* than the tolerance eps
AlmostEqual(a, b, eps) == Abs(a - b) < eps

(* --------------------------------- data --------------------------------- *)

\* The flight plan the user builds: waypoint n lies at latitude PlanLat(n), so that
\* two waypoints in a row can share a position.  A route map object is its latitude.
PlanLat(n) == (n \div 2) % (MaxLat + 1)

\* atools::geo::Pos() is the invalid position
InvalidPos == [lat |-> 0, alt |-> 0, valid |-> FALSE]

MakePos(lat, alt) == [lat |-> lat, alt |-> alt, valid |-> TRUE]

\* ElevationLeg leg;
NewLeg == [elevation |-> <<>>, distances |-> <<>>, maxElevation |-> 0]

\* ElevationLegList()
EmptyLegList ==
    [routeMapObjects |-> <<>>, elevationLegs |-> <<>>,
     maxRouteElevation |-> 0, totalDistance |-> 0, totalNumPoints |-> 0]

\* atools::fs::sc::SimConnectData(): the position is invalid
NoSimData == [valid |-> FALSE, alt |-> 0, lat |-> 0]

\* No paintEvent was handled yet
NoPaint == [what |-> "nothing", waypointReads |-> {}, snapshotReads |-> {}]

\* No mouseMoveEvent was handled yet
NoHover == [what |-> "nothing"]

\* A computation that was never started, or whose future the widget has let go.
\* lateCalls and lateSamples are history: the heightProfile calls made and the samples
\* retained by the running computation in states where terminate was set; fallback
\* is history: heightProfile returned nothing for the leg under construction.
NoTask ==
    [pc |-> "none", legs |-> EmptyLegList, i |-> 0, j |-> 0, elev |-> <<>>,
     leg |-> NewLeg, lastPos |-> InvalidPos, cancelled |-> FALSE,
     applied |-> FALSE, startRoute |-> <<>>, snapAtStart |-> TRUE,
     lateCalls |-> 0, lateSamples |-> 0, fallback |-> FALSE]

Runs == 1 .. MaxRuns

VARIABLES
    visible,            \* ProfileWidget::visible
    terminate,          \* ProfileWidget::terminate
    legList,            \* ProfileWidget::legList
    waypointX, poly,    \* projection: per-waypoint x, terrain polygon
    vertScale, horizScale,   \* scale factors: <<dividend, divisor>> of lines 147-148
    maxRouteElevationFt, flightplanAltFt, maxHeight,
    simData,            \* stored aircraft position: [valid, alt, lat]
    timerActive, timerLeft,  \* updateTimer (single shot): running, ms left
    future,             \* id of the computation ProfileWidget::future refers to, 0: QFuture()
    finishedEvent,      \* a finished() call-out of the watched future is posted
    fg,                 \* position of the foreground context
    task,               \* the computations: id -> locals of fetchRouteElevationsThread
    route,              \* routeController->getRouteMapObjects(), the live route
    terrainLoaded,      \* the elevation model has its tiles
    terrain,            \* the elevation model: latitude -> height of the ground in meters
    width, height,      \* rect()
    showAircraft,       \* getShownMapFeatures() & maptypes::AIRCRAFT
    aircraftDistanceFromStart,   \* ProfileWidget::aircraftDistanceFromStart
    painted,            \* what the last paintEvent drew and which entries it read
    hover,              \* what the last mouseMoveEvent computed and showed
    numStarted,         \* history: computations started so far
    armedBy,            \* history: what armed the timer last: "show", a "trigger", or
                        \* a trigger that found the timer running, a "restart"
    sinceArm            \* history: ms since the timer was armed last, up to UPDATE_TIMEOUT

widgetVars == <<visible, terminate, legList>>
projVars == <<waypointX, poly, vertScale, horizScale, maxRouteElevationFt,
              flightplanAltFt, maxHeight>>
timerVars == <<timerActive, timerLeft>>
histVars == <<armedBy, sinceArm>>
envVars == <<route, terrainLoaded, terrain, width, height, showAircraft, simData>>
viewVars == <<aircraftDistanceFromStart, painted, hover>>
vars == <<widgetVars, projVars, timerVars, histVars, envVars, viewVars,
          future, finishedEvent, fg, task, numStarted>>


(* --------------------------- terrain sampler --------------------------- *)

\* The latitudes of the model
Lats == 0 .. MaxLat + 2

\* Ground that rises by GroundStepM with every arc minute
SteepTerrain == [lat \in Lats |-> lat * GroundStepM]

\* Ground that rises by 2 m with every arc minute: 0, 6, 13, 19 ... ft
GentleTerrain == [lat \in Lats |-> 2 * lat]

\* A plateau that rises gently, above a coast at latitude 0
PlateauTerrain == [lat \in Lats |-> IF lat = 0 THEN 0 ELSE GroundStepM + 2 * lat]

\* Height of the terrain in meters at a latitude
GroundM(lat) == terrain[lat]

RECURSIVE Samples(_, _)
Samples(a, b) ==
    IF a = b THEN <<[lat |-> a, altM |-> GroundM(a)]>>
    ELSE <<[lat |-> a, altM |-> GroundM(a)]>> \o Samples(IF a < b THEN a + 1 ELSE a - 1, b)

\* elevationModel->heightProfile(): one sample per arc minute from a to b, or
\* nothing while the elevation tiles are not loaded
HeightProfile(a, b) == IF terrainLoaded THEN Samples(a, b) ELSE <<>>

(* ------------------ fetchRouteElevationsThread, by steps ------------------ *)

\* return: the function's locals die, the future holds the returned list
Return(t, result, sawTerminate) ==
    [t EXCEPT !.pc = "done", !.legs = result, !.cancelled = sawTerminate,
              !.i = 0, !.j = 0, !.elev = <<>>, !.leg = NewLeg, !.lastPos = InvalidPos,
              !.lateCalls = 0, !.lateSamples = 0, !.fallback = FALSE]

\* lines 354-361: the list is initialised and the live route copied into it
BeginStep(t, liveRoute) ==
    [t EXCEPT !.pc = "leg",
              !.legs = [routeMapObjects |-> liveRoute, elevationLegs |-> <<>>,
                        maxRouteElevation |-> 0, totalDistance |-> 0,
                        totalNumPoints |-> 0],
              !.i = 1,
              !.snapAtStart = (liveRoute = t.startRoute),
              !.startRoute = <<>>]

\* Mutant: both points of the fallback lie at the first waypoint
FallbackAtFirstWaypoint(elev, lastRmo, rmo) ==
    IF elev = <<>>
    THEN <<[lat |-> lastRmo, altM |-> 0], [lat |-> lastRmo, altM |-> 0]>>
    ELSE elev

\* lines 375-382: two points at altitude 0 stand in for missing terrain data
WithFallback(elev, lastRmo, rmo) ==
    IF elev = <<>>
    THEN <<[lat |-> lastRmo, altM |-> 0], [lat |-> rmo, altM |-> 0]>>
    ELSE elev

\* lines 363-366 and 420-422: head of the loop over the legs, with its check of
\* terminate
LegStep(t, term) ==
    IF t.i < Len(t.legs.routeMapObjects)
    THEN IF term
         THEN Return(t, t.legs, TRUE)
         ELSE [t EXCEPT !.pc = "profile"]
    ELSE Return(t, t.legs, FALSE)

\* lines 368-385: the terrain between the two waypoints of the leg is fetched
ProfileStep(t, term) ==
    LET lastRmo == t.legs.routeMapObjects[t.i]
        rmo == t.legs.routeMapObjects[t.i + 1]
    IN  [t EXCEPT !.pc = "sample",
                  !.elev = WithFallback(HeightProfile(lastRmo, rmo), lastRmo, rmo),
                  !.leg = NewLeg, !.lastPos = InvalidPos, !.j = 0,
                  !.lateCalls = t.lateCalls + IF term THEN 1 ELSE 0,
                  !.fallback = (HeightProfile(lastRmo, rmo) = <<>>)]

\* lines 392-393: the position of a sample, its altitude in feet
SamplePos(coord) == MakePos(coord.lat, MeterToFeet(coord.altM))

\* Mutant: the last sample of a segment is thinned like the ones before it
DroppedAlsoLast(t, pos) ==
    /\ t.lastPos.valid
    /\ t.j # 0
    /\ Len(t.legs.elevationLegs) > 2
    /\ AlmostEqual(pos.alt, t.lastPos.alt, 10)

\* lines 395-397: the sample is dropped
Dropped(t, pos) ==
    /\ t.lastPos.valid
    /\ t.j # 0
    /\ t.j # Len(t.elev) - 1
    /\ Len(t.legs.elevationLegs) > 2
    /\ AlmostEqual(pos.alt, t.lastPos.alt, 10)

\* Mutant: the highest point of the route is not kept up
RetainNoRouteMax(t, pos) ==
    LET dist == IF t.j > 0 THEN DistanceNm(t.lastPos, pos) ELSE 0
        total == t.legs.totalDistance + dist
    IN  [t EXCEPT !.leg = [elevation |-> Append(t.leg.elevation, pos),
                           distances |-> Append(t.leg.distances, total),
                           maxElevation |-> Max(t.leg.maxElevation, pos.alt)],
                  !.legs.totalDistance = total,
                  !.legs.totalNumPoints = t.legs.totalNumPoints + 1,
                  !.lastPos = pos,
                  !.j = t.j + 1]

\* Mutant: the distance is appended before the total is advanced
RetainStaleDistance(t, pos) ==
    LET dist == IF t.j > 0 THEN DistanceNm(t.lastPos, pos) ELSE 0
        total == t.legs.totalDistance + dist
    IN  [t EXCEPT !.leg = [elevation |-> Append(t.leg.elevation, pos),
                           distances |-> Append(t.leg.distances, t.legs.totalDistance),
                           maxElevation |-> Max(t.leg.maxElevation, pos.alt)],
                  !.legs.maxRouteElevation = Max(t.legs.maxRouteElevation, pos.alt),
                  !.legs.totalDistance = total,
                  !.legs.totalNumPoints = t.legs.totalNumPoints + 1,
                  !.lastPos = pos,
                  !.j = t.j + 1]

\* Mutant: the way from lastPos is added for the first sample of a leg too
RetainNoFirstGuard(t, pos) ==
    LET dist == DistanceNm(t.lastPos, pos)
        total == t.legs.totalDistance + dist
    IN  [t EXCEPT !.leg = [elevation |-> Append(t.leg.elevation, pos),
                           distances |-> Append(t.leg.distances, total),
                           maxElevation |-> Max(t.leg.maxElevation, pos.alt)],
                  !.legs.maxRouteElevation = Max(t.legs.maxRouteElevation, pos.alt),
                  !.legs.totalDistance = total,
                  !.legs.totalNumPoints = t.legs.totalNumPoints + 1,
                  !.lastPos = pos,
                  !.j = t.j + 1]

\* Mutant: the distances of a leg are counted from the leg's first sample
RetainLegLocal(t, pos) ==
    LET dist == IF t.j > 0 THEN DistanceNm(t.lastPos, pos) ELSE 0
        total == t.legs.totalDistance + dist
        local == IF t.leg.distances = <<>> THEN 0
                 ELSE t.leg.distances[Len(t.leg.distances)] + dist
    IN  [t EXCEPT !.leg = [elevation |-> Append(t.leg.elevation, pos),
                           distances |-> Append(t.leg.distances, local),
                           maxElevation |-> Max(t.leg.maxElevation, pos.alt)],
                  !.legs.maxRouteElevation = Max(t.legs.maxRouteElevation, pos.alt),
                  !.legs.totalDistance = total,
                  !.legs.totalNumPoints = t.legs.totalNumPoints + 1,
                  !.lastPos = pos,
                  !.j = t.j + 1]

\* lines 400-415: the sample is retained
Retain(t, pos) ==
    LET dist == IF t.j > 0 THEN DistanceNm(t.lastPos, pos) ELSE 0
        total == t.legs.totalDistance + dist
    IN  [t EXCEPT !.leg = [elevation |-> Append(t.leg.elevation, pos),
                           distances |-> Append(t.leg.distances, total),
                           maxElevation |-> Max(t.leg.maxElevation, pos.alt)],
                  !.legs.maxRouteElevation = Max(t.legs.maxRouteElevation, pos.alt),
                  !.legs.totalDistance = total,
                  !.legs.totalNumPoints = t.legs.totalNumPoints + 1,
                  !.lastPos = pos,
                  !.j = t.j + 1]

\* Mutant: the loop over the samples does not look at terminate
SampleStepNoCheck(t, term) ==
    IF t.j < Len(t.elev)
    THEN [t EXCEPT !.pc = "retain"]
    ELSE [t EXCEPT !.pc = "leg",
                   !.legs.elevationLegs = Append(t.legs.elevationLegs, t.leg),
                   !.i = t.i + 1,
                   !.elev = <<>>, !.leg = NewLeg, !.lastPos = InvalidPos, !.j = 0,
                   !.fallback = FALSE]

\* lines 386-390 and 417: head of the loop over the samples of a leg, with its check
\* of terminate; after the last sample the leg is appended
SampleStep(t, term) ==
    IF t.j < Len(t.elev)
    THEN IF term
         THEN Return(t, EmptyLegList, TRUE)
         ELSE [t EXCEPT !.pc = "retain"]
    ELSE [t EXCEPT !.pc = "leg",
                   !.legs.elevationLegs = Append(t.legs.elevationLegs, t.leg),
                   !.i = t.i + 1,
                   !.elev = <<>>, !.leg = NewLeg, !.lastPos = InvalidPos, !.j = 0,
                   !.fallback = FALSE]

\* lines 392-415: the sample is dropped or retained
RetainStep(t, term) ==
    LET pos == SamplePos(t.elev[t.j + 1])
    IN  IF Dropped(t, pos)
        THEN [t EXCEPT !.pc = "sample", !.j = t.j + 1]
        ELSE [Retain(t, pos) EXCEPT !.pc = "sample",
                                     !.lateSamples = t.lateSamples + IF term THEN 1 ELSE 0]

InFlight == {k \in Runs : task[k].pc \in {"queued", "leg", "profile", "sample", "retain"}}

\* QFuture::isRunning
FutureIsRunning == future # 0 /\ future \in InFlight

\* QFuture::isStarted: a future stays started; QFuture() is started, canceled and
\* finished
FutureIsStarted == TRUE

\* Mutant: the wait returns while the computation is still running
NoWait == TRUE

\* QFuture::waitForFinished returns
WaitForFinished == ~FutureIsRunning

\* QFuture::result
FutureResult == IF future = 0 THEN EmptyLegList ELSE task[future].legs

(* -------------------------- updateScreenCoords -------------------------- *)

\* The outcomes of static_cast<int> applied to a NaN or an infinity
NanCasts == {-2147483647 - 1, 0}

\* lines 147-148: the float a scale factor is, the quotient of its two operands
ScaleOf(sc) == FDiv(FromInt(sc[1]), FromInt(sc[2]))

\* routeController->isFlightplanEmpty()
IsFlightplanEmpty == route = <<>>

\* Mutant: the buffered elevation is rounded down
RoundedDown(elevation) == ((elevation + 1000) \div 500) * 500

\* line 138
RoundedElevation(elevation) == CeilDiv(elevation + 1000, 500) * 500

\* lines 140-145
MaxHeightOf(ll, sd) ==
    LET top == Max(RoundedElevation(ll.maxRouteElevation), CruisingAlt)
    IN  IF sd.valid /\ showAircraft /\ ~IsFlightplanEmpty
        THEN Max(top, sd.alt)
        ELSE top

\* line 162: the float leg.distances.at(i) * horizScale
XValue(dist, hs) == FMul(FromInt(dist), ScaleOf(hs))

\* line 163: the float h - alt * vertScale
YValue(alt, h, vs) == FSub(FromInt(h), FMul(FromInt(alt), ScaleOf(vs)))

\* The widths and heights the widget has in this module, the lengths of its routes,
\* the altitudes of its terrains and the tops of the altitude axis these give
KnownWidths == {WidgetWidth, WidgetWidth \div 2, NarrowWidth, 2 * X0, 2 * X0 - 2, X0}

KnownHeights == {WidgetHeight, WidgetHeight \div 2, 0}

KnownDistances == 0 .. (MaxRoute + 1) * (MaxLat + 2)

KnownAltitudes ==
    {MeterToFeet(t[lat]) : t \in {SteepTerrain, GentleTerrain, PlateauTerrain}, lat \in Lats}

KnownTops ==
    {Max(Max(RoundedElevation(a), CruisingAlt), sim) :
        a \in KnownAltitudes, sim \in {0, CruisingAlt \div 2, CruisingAlt * 2}}

\* static_cast<int> of XValue and of YValue for these, evaluated once: no entry where
\* the cast is undefined
Cast(v) == IF FCast(v, 0) = FCast(v, 1) THEN <<FCast(v, 0)>> ELSE <<>>

\* The value of a cast c, nan where it is undefined
CastOr(c, nan) == IF c = <<>> THEN nan ELSE c[1]

XCasts ==
    [w \in {rw - X0 * 2 : rw \in KnownWidths} |->
        [total \in KnownDistances |->
            [dist \in KnownDistances |-> Cast(XValue(dist, <<w, total>>))]]]

YCasts ==
    [h \in {rh - Y0 : rh \in KnownHeights} |->
        [top \in KnownTops |->
            [alt \in KnownAltitudes |-> Cast(YValue(alt, h, <<h, top>>))]]]

\* Mutant: the left margin is left out
PixelXNoMargin(dist, hs, nan) == CastOr(Cast(XValue(dist, hs)), nan)

\* x of a cumulative distance: X0 + static_cast<int>(dist * horizScale)
PixelX(dist, hs, nan) ==
    X0 + CastOr(IF /\ hs[1] \in DOMAIN XCasts
                   /\ hs[2] \in KnownDistances
                   /\ dist \in KnownDistances
                THEN XCasts[hs[1]][hs[2]][dist]
                ELSE Cast(XValue(dist, hs)), nan)

\* y of an altitude: Y0 + static_cast<int>(h - alt * vertScale)
PixelY(alt, h, vs, nan) ==
    Y0 + CastOr(IF /\ h = vs[1]
                   /\ h \in DOMAIN YCasts
                   /\ vs[2] \in KnownTops
                   /\ alt \in KnownAltitudes
                THEN YCasts[h][vs[2]][alt]
                ELSE Cast(YValue(alt, h, vs)), nan)

\* (lastPt - pt).manhattanLength()
ManhattanLength(p, q) == Abs(p[1] - q[1]) + Abs(p[2] - q[2])

\* QPoint::isNull
IsNull(p) == p = <<0, 0>>

\* Mutant: the last point of a leg is appended once more after the loop
RECURSIVE LegPointsLastTwice(_, _, _, _, _, _, _)
LegPointsLastTwice(leg, i, lastPt, h, hs, vs, nan) ==
    IF i > Len(leg.elevation) THEN <<>>
    ELSE LET pt == <<PixelX(leg.distances[i], hs, nan),
                     PixelY(leg.elevation[i].alt, h, vs, nan)>>
         IN  IF i = Len(leg.elevation) THEN <<pt, pt>>
             ELSE IF IsNull(lastPt) \/ ManhattanLength(lastPt, pt) > 2
                  THEN <<pt>> \o LegPointsLastTwice(leg, i + 1, pt, h, hs, vs, nan)
                  ELSE LegPointsLastTwice(leg, i + 1, lastPt, h, hs, vs, nan)

\* lines 159-170: the points of one leg that are appended, from sample i on
RECURSIVE LegPoints(_, _, _, _, _, _, _)
RECURSIVE LegPointsWith(_, _, _, _, _, _, _, _)
LegPoints(leg, i, lastPt, h, hs, vs, nan) ==
    IF i > Len(leg.elevation) THEN <<>>
    ELSE LegPointsWith(leg, i, lastPt,
                       <<PixelX(leg.distances[i], hs, nan),
                         PixelY(leg.elevation[i].alt, h, vs, nan)>>,
                       h, hs, vs, nan)

\* lines 165-169: sample i of the leg is projected at pt
LegPointsWith(leg, i, lastPt, pt, h, hs, vs, nan) ==
    IF IsNull(lastPt) \/ i = Len(leg.elevation) \/ ManhattanLength(lastPt, pt) > 2
    THEN <<pt>> \o LegPoints(leg, i + 1, pt, h, hs, vs, nan)
    ELSE LegPoints(leg, i + 1, lastPt, h, hs, vs, nan)

\* Mutant: the last appended point is kept from one leg to the next
RECURSIVE AllLegPointsCarried(_, _, _, _, _, _)
AllLegPointsCarried(legs, n, h, hs, vs, nan) ==
    IF n > Len(legs) THEN <<>>
    ELSE LET before == legs[n - 1]
             lastPt == IF n = 1 THEN <<0, 0>>
                       ELSE <<PixelX(before.distances[Len(before.distances)], hs, nan),
                              PixelY(before.elevation[Len(before.elevation)].alt, h, vs, nan)>>
         IN  LegPoints(legs[n], 1, lastPt, h, hs, vs, nan)
                 \o AllLegPointsCarried(legs, n + 1, h, hs, vs, nan)

\* lines 154-171: lastPt is declared, a null point, for every leg
RECURSIVE AllLegPoints(_, _, _, _, _, _)
AllLegPoints(legs, n, h, hs, vs, nan) ==
    IF n > Len(legs) THEN <<>>
    ELSE LegPoints(legs[n], 1, <<0, 0>>, h, hs, vs, nan)
             \o AllLegPoints(legs, n + 1, h, hs, vs, nan)

\* lines 133-174: the projection of the profile ll with the aircraft data sd in a
\* widget of size rw x rh
ScreenCoordsWith(ll, nan, sd, rw, rh) ==
    LET w == rw - X0 * 2
        h == rh - Y0
        top == MaxHeightOf(ll, sd)
        vs == <<h, top>>
        hs == <<w, ll.totalDistance>>
    IN  [maxRouteElevationFt |-> RoundedElevation(ll.maxRouteElevation),
         flightplanAltFt |-> CruisingAlt,
         maxHeight |-> top,
         vertScale |-> vs,
         horizScale |-> hs,
         waypointX |-> [n \in 1 .. Len(ll.elevationLegs) |->
                           PixelX(ll.elevationLegs[n].distances[1], hs, nan)]
                       \o <<X0 + w>>,
         poly |-> <<(<<X0, h + Y0>>)>>
                  \o AllLegPoints(ll.elevationLegs, 1, h, hs, vs, nan)
                  \o <<(<<X0 + w, h + Y0>>)>>]

\* The projection with the aircraft data and the size of the current state
ScreenCoords(ll, nan) == ScreenCoordsWith(ll, nan, simData, width, height)

\* The casts of a projection are defined unless a leg is projected at scale w / 0
NanChoices(ll) ==
    IF ll.elevationLegs # <<>> /\ ll.totalDistance = 0 THEN NanCasts ELSE {0}

\* updateScreenCoords() on the profile ll, in a handler that has set the aircraft
\* data to sd and found the widget at size rw x rh
UpdateScreenCoordsWith(ll, sd, rw, rh) ==
    \E nan \in NanChoices(ll) :
        \E sc \in {ScreenCoordsWith(ll, nan, sd, rw, rh)} :
            /\ maxRouteElevationFt' = sc.maxRouteElevationFt
            /\ flightplanAltFt' = sc.flightplanAltFt
            /\ maxHeight' = sc.maxHeight
            /\ vertScale' = sc.vertScale
            /\ horizScale' = sc.horizScale
            /\ waypointX' = sc.waypointX
            /\ poly' = sc.poly

\* updateScreenCoords() on the profile ll
UpdateScreenCoords(ll) == UpdateScreenCoordsWith(ll, simData, width, height)

(* ------------------------------ the widget ------------------------------ *)

\* The constructor: the timer is single shot and not running, future is QFuture(),
\* the widget is not shown yet
Init ==
    /\ visible = FALSE
    /\ terminate = FALSE
    /\ legList = EmptyLegList
    /\ waypointX = <<>>
    /\ poly = <<>>
    /\ vertScale = <<0, 1>>
    /\ horizScale = <<0, 1>>
    /\ maxRouteElevationFt = 0
    /\ flightplanAltFt = 0
    /\ maxHeight = 0
    /\ simData = NoSimData
    /\ timerActive = FALSE
    /\ timerLeft = 0
    /\ future = 0
    /\ finishedEvent = FALSE
    /\ fg = "idle"
    /\ task = [k \in Runs |-> NoTask]
    /\ route = <<>>
    /\ terrainLoaded = FALSE
    /\ terrain = SteepTerrain
    /\ aircraftDistanceFromStart = 0
    /\ painted = NoPaint
    /\ hover = NoHover
    /\ width = WidgetWidth
    /\ height = WidgetHeight
    /\ showAircraft = TRUE
    /\ numStarted = 0
    /\ armedBy = "none"
    /\ sinceArm = 0

\* Mutant: a running timer is left alone
TimerStartIfInactive(msec) ==
    IF timerActive
    THEN UNCHANGED timerVars
    ELSE /\ timerActive' = TRUE
         /\ timerLeft' = msec

\* updateTimer->start(msec): a running timer is stopped and started again
TimerStart(msec) ==
    /\ timerActive' = TRUE
    /\ timerLeft' = msec

\* Mutant: every change of the route is handled as a change of its geometry
RouteChangedAsGeometry(geometryChanged) ==
    /\ fg = "idle"
    /\ IF ~visible
       THEN UNCHANGED vars
       ELSE /\ TimerStart(UPDATE_TIMEOUT)
            /\ armedBy' = IF timerActive THEN "restart" ELSE "trigger"
            /\ sinceArm' = 0
            /\ UNCHANGED <<widgetVars, projVars, envVars, viewVars, future, finishedEvent,
                           fg, task, numStarted>>

\* lines 74-89
RouteChanged(geometryChanged) ==
    /\ fg = "idle"
    /\ IF ~visible
       THEN UNCHANGED vars
       ELSE IF geometryChanged
            THEN /\ TimerStart(UPDATE_TIMEOUT)
                 /\ armedBy' = IF timerActive THEN "restart" ELSE "trigger"
                 /\ sinceArm' = 0
                 /\ UNCHANGED <<widgetVars, projVars, envVars, viewVars, future, finishedEvent,
                                fg, task, numStarted>>
            ELSE /\ UNCHANGED <<widgetVars, timerVars, histVars, envVars, viewVars, future,
                                finishedEvent, fg, task, numStarted>>
                 /\ UpdateScreenCoords(legList)

\* lines 425-432
UpdateElevation ==
    /\ fg = "idle"
    /\ IF ~visible
       THEN UNCHANGED vars
       ELSE /\ TimerStart(UPDATE_TIMEOUT)
            /\ armedBy' = IF timerActive THEN "restart" ELSE "trigger"
            /\ sinceArm' = 0
            /\ UNCHANGED <<widgetVars, projVars, envVars, viewVars, future, finishedEvent,
                           fg, task, numStarted>>

\* Mutant: showing the widget debounces like a trigger
ShowEventDebounced ==
    /\ fg = "idle"
    /\ visible' = TRUE
    /\ TimerStart(UPDATE_TIMEOUT)
    /\ armedBy' = "show"
    /\ sinceArm' = 0
    /\ UNCHANGED <<terminate, legList, projVars, envVars, viewVars, future, finishedEvent,
                   fg, task, numStarted>>

\* lines 469-473
ShowEvent ==
    /\ fg = "idle"
    /\ visible' = TRUE
    /\ TimerStart(0)
    /\ armedBy' = "show"
    /\ sinceArm' = 0
    /\ UNCHANGED <<terminate, legList, projVars, envVars, viewVars, future, finishedEvent,
                   fg, task, numStarted>>

\* lines 475-478
HideEvent ==
    /\ fg = "idle"
    /\ visible' = FALSE
    /\ UNCHANGED <<terminate, legList, projVars, timerVars, histVars, envVars, viewVars,
                   future, finishedEvent, fg, task, numStarted>>

\* Mutant: updateTimeout without its check of visible
UpdateTimeoutUnguarded ==
    /\ fg = "idle"
    /\ timerActive
    /\ timerLeft = 0
    /\ numStarted < MaxRuns
    /\ timerActive' = FALSE
    /\ terminate' = TRUE
    /\ fg' = "updateTimeout"
    /\ UNCHANGED <<visible, legList, projVars, timerLeft, histVars, envVars, viewVars, future,
                   finishedEvent, task, numStarted>>

\* lines 434-445: the timer has expired and its timeout() is delivered; the handler
\* goes up to the wait for the computation that future refers to
UpdateTimeout ==
    /\ fg = "idle"
    /\ timerActive
    /\ timerLeft = 0
    /\ visible => numStarted < MaxRuns
    /\ timerActive' = FALSE
    /\ IF ~visible
       THEN UNCHANGED <<terminate, fg>>
       ELSE IF FutureIsRunning \/ FutureIsStarted
            THEN /\ terminate' = TRUE
                 /\ fg' = "updateTimeout"
            ELSE /\ terminate' = terminate
                 /\ fg' = "updateTimeout"
    /\ UNCHANGED <<visible, legList, projVars, timerLeft, histVars, envVars, viewVars, future,
                   finishedEvent, task, numStarted>>

\* future = QtConcurrent::run(...): the computation is queued in the thread pool; the
\* future that was held before is let go, and with it its result
RunConcurrent(id) ==
    [k \in Runs |->
        IF k = id THEN [NoTask EXCEPT !.pc = "queued", !.startRoute = route]
        ELSE IF k = future /\ task[k].pc = "done"
             THEN [NoTask EXCEPT !.pc = "done", !.cancelled = task[k].cancelled,
                                 !.applied = task[k].applied]
             ELSE task[k]]

\* Mutant: only the first computation's future is stored in the member and given to
\* the watcher; a later computation is started without either
ResumeKeepsFuture ==
    /\ fg = "updateTimeout"
    /\ WaitForFinished
    /\ terminate' = FALSE
    /\ task' = [task EXCEPT ![numStarted + 1] =
                    [NoTask EXCEPT !.pc = "queued", !.startRoute = route]]
    /\ future' = IF future = 0 THEN numStarted + 1 ELSE future
    /\ numStarted' = numStarted + 1
    /\ fg' = "idle"
    /\ UNCHANGED <<visible, legList, projVars, timerVars, histVars, envVars, viewVars,
                   finishedEvent>>

\* Mutant: terminate is left set when the next computation is started
ResumeKeepsTerminate ==
    /\ fg = "updateTimeout"
    /\ WaitForFinished
    /\ terminate' = terminate
    /\ task' = RunConcurrent(numStarted + 1)
    /\ future' = numStarted + 1
    /\ numStarted' = numStarted + 1
    /\ finishedEvent' = FALSE
    /\ fg' = "idle"
    /\ UNCHANGED <<visible, legList, projVars, timerVars, histVars, envVars, viewVars>>

\* lines 444-451: the wait is over; the flag is cleared and the next computation
\* started.  watcher.setFuture() removes the call-outs posted for the old future.
UpdateTimeoutResume ==
    /\ fg = "updateTimeout"
    /\ WaitForFinished
    /\ terminate' = FALSE
    /\ task' = RunConcurrent(numStarted + 1)
    /\ future' = numStarted + 1
    /\ numStarted' = numStarted + 1
    /\ finishedEvent' = FALSE
    /\ fg' = "idle"
    /\ UNCHANGED <<visible, legList, projVars, timerVars, histVars, envVars, viewVars>>

\* Mutant: the result is taken over without updateScreenCoords()
UpdateFinishedNoProjection ==
    /\ fg = "idle"
    /\ finishedEvent
    /\ finishedEvent' = FALSE
    /\ IF visible /\ ~terminate
       THEN /\ legList' = FutureResult
            /\ task' = [task EXCEPT ![future].applied = TRUE]
            /\ UNCHANGED projVars
       ELSE UNCHANGED <<legList, projVars, task>>
    /\ UNCHANGED <<visible, terminate, timerVars, histVars, envVars, viewVars, future, fg,
                   numStarted>>

\* lines 454-467: finished() of the watched future is delivered
UpdateFinished ==
    /\ fg = "idle"
    /\ finishedEvent
    /\ finishedEvent' = FALSE
    /\ IF visible /\ ~terminate
       THEN /\ legList' = FutureResult
            /\ UpdateScreenCoords(FutureResult)
            /\ task' = [task EXCEPT ![future].applied = TRUE]
       ELSE UNCHANGED <<legList, projVars, task>>
    /\ UNCHANGED <<visible, terminate, timerVars, histVars, envVars, viewVars, future, fg,
                   numStarted>>

\* lines 65-69: the destructor up to its wait
Destructor ==
    /\ fg = "idle"
    /\ IF FutureIsRunning \/ FutureIsStarted
       THEN terminate' = TRUE
       ELSE terminate' = terminate
    /\ fg' = "destructor"
    /\ UNCHANGED <<visible, legList, projVars, timerVars, histVars, envVars, viewVars, future,
                   finishedEvent, task, numStarted>>

\* Mutant: the destructor does not wait
DestructorNoWait ==
    /\ fg = "destructor"
    /\ fg' = "destroyed"
    /\ UNCHANGED <<widgetVars, projVars, timerVars, histVars, envVars, viewVars, future,
                   finishedEvent, task, numStarted>>

\* lines 70-72: the wait is over and the widget is gone
DestructorResume ==
    /\ fg = "destructor"
    /\ WaitForFinished
    /\ fg' = "destroyed"
    /\ UNCHANGED <<widgetVars, projVars, timerVars, histVars, envVars, viewVars, future,
                   finishedEvent, task, numStarted>>

\* lines 104-108: the sum of getDistanceTo() of the waypoints 0 .. index of the live
\* route, each one's distance from the waypoint before it
RECURSIVE DistanceToWaypoint(_)
DistanceToWaypoint(index) ==
    IF index <= 0 THEN 0
    ELSE DistanceToWaypoint(index - 1)
             + DistanceNm(MakePos(route[index], 0), MakePos(route[index + 1], 0))

\* lines 91-124: index is what nearestLegIndex returns for the position
SimDataChanged(simulatorData, nearestLegIndex) ==
    /\ fg = "idle"
    /\ IF showAircraft /\ ~IsFlightplanEmpty
       THEN /\ simData' = simulatorData
            /\ IF nearestLegIndex # -1
               THEN LET index == IF nearestLegIndex >= Len(route)
                                 THEN Len(route) - 1
                                 ELSE nearestLegIndex
                    IN  /\ aircraftDistanceFromStart' =
                               DistanceToWaypoint(index)
                                   - DistanceNm(MakePos(route[index + 1], 0), simulatorData)
                        /\ IF simulatorData.alt > maxHeight
                           THEN UpdateScreenCoordsWith(legList, simulatorData, width, height)
                           ELSE UNCHANGED projVars
               ELSE UNCHANGED <<aircraftDistanceFromStart, projVars>>
       ELSE /\ simData' = NoSimData
            /\ UNCHANGED <<aircraftDistanceFromStart, projVars>>
    /\ UNCHANGED <<widgetVars, timerVars, histVars, route, terrainLoaded, terrain, width,
                   height, showAircraft, painted, hover, future, finishedEvent, fg,
                   task, numStarted>>

\* lines 126-131
DisconnectedFromSimulator ==
    /\ fg = "idle"
    /\ simData' = NoSimData
    /\ UpdateScreenCoordsWith(legList, NoSimData, width, height)
    /\ UNCHANGED <<widgetVars, timerVars, histVars, route, terrainLoaded, terrain, width,
                   height, showAircraft, viewVars, future, finishedEvent, fg, task,
                   numStarted>>

\* lines 564-567: the widget has the size rw x rh now
ResizeEvent(rw, rh) ==
    /\ fg = "idle"
    /\ width' = rw
    /\ height' = rh
    /\ UpdateScreenCoordsWith(legList, simData, rw, rh)
    /\ UNCHANGED <<widgetVars, timerVars, histVars, route, terrainLoaded, terrain,
                   showAircraft, simData, viewVars, future, finishedEvent, fg, task,
                   numStarted>>

\* Mutant: the placeholder is drawn only for a profile without waypoints
PaintEventNoLegCheck ==
    /\ fg = "idle"
    /\ painted' =
         IF ~visible \/ legList.routeMapObjects = <<>>
         THEN [what |-> "placeholder", waypointReads |-> {}, snapshotReads |-> {}]
         ELSE [what |-> "profile",
               waypointReads |-> (1 .. Len(waypointX)) \cup (1 .. Len(legList.routeMapObjects)),
               snapshotReads |-> 1 .. Len(legList.routeMapObjects)]
    /\ UNCHANGED <<widgetVars, projVars, timerVars, histVars, envVars,
                   aircraftDistanceFromStart, hover, future, finishedEvent, fg, task,
                   numStarted>>

\* lines 176-347: the placeholder is drawn and nothing else, or the profile is drawn:
\* every entry of waypointX is read by the loop of line 201, waypointX.at(i) and
\* routeMapObjects.at(i) are read for every index of the snapshot (lines 235-298)
PaintEvent ==
    /\ fg = "idle"
    /\ painted' =
         IF ~visible \/ legList.elevationLegs = <<>> \/ legList.routeMapObjects = <<>>
         THEN [what |-> "placeholder", waypointReads |-> {}, snapshotReads |-> {}]
         ELSE [what |-> "profile",
               waypointReads |-> (1 .. Len(waypointX)) \cup (1 .. Len(legList.routeMapObjects)),
               snapshotReads |-> 1 .. Len(legList.routeMapObjects)]
    /\ UNCHANGED <<widgetVars, projVars, timerVars, histVars, envVars,
                   aircraftDistanceFromStart, hover, future, finishedEvent, fg, task,
                   numStarted>>

(* ---------------------------- mouseMoveEvent ---------------------------- *)

\* line 510: the float n / horizScale for the scale hs
Quotient(n, hs) == FDiv(FromInt(n), ScaleOf(hs))

\* line 510 for every pixel between the margins of the known widths and every known
\* total distance, computed once
Quotients ==
    [w \in {rw - X0 * 2 : rw \in KnownWidths} |->
        [total \in KnownDistances |->
            [n \in Min(w, 0) .. Max(w, 0) |-> Quotient(n, <<w, total>>)]]]

\* line 510: n / horizScale for the scale hs
QuotientBy(n, hs) ==
    IF hs[1] \in DOMAIN Quotients /\ hs[2] \in KnownDistances
          /\ n \in Min(hs[1], 0) .. Max(hs[1], 0)
    THEN Quotients[hs[1]][hs[2]][n]
    ELSE Quotient(n, hs)

\* the distances of the profile as floats, computed once
FloatDistances == [d \in KnownDistances |-> FromInt(d)]

\* a distance d of the list as the float the list holds
FloatDistance(d) == IF d \in KnownDistances THEN FloatDistances[d] ELSE FromInt(d)

\* lines 511-519: d < v for a distance d of the list and a float v
ElemLess(d, v) == FLess(FloatDistance(d), v)

\* lines 520-528: v < d
ValueLess(v, d) == FLess(v, FloatDistance(d))

\* line 534: v - d
Minus(v, d) == FSub(v, FloatDistance(d))

\* The loop of std::lower_bound and std::upper_bound over the len elements after the
\* first ones: the search goes on right of the middle element where right says so.
\* The result is the number of elements before the iterator returned.
RECURSIVE Bisect(_, _, _)
Bisect(right, first, len) ==
    IF len <= 0 THEN first
    ELSE LET half == len \div 2
             middle == first + half
         IN  IF right[middle + 1]
             THEN Bisect(right, middle + 1, len - half - 1)
             ELSE Bisect(right, first, half)

\* std::lower_bound(waypointX.begin(), waypointX.end(), x) - waypointX.begin()
LowerBoundX(xs, x) == Bisect([i \in 1 .. Len(xs) |-> xs[i] < x], 0, Len(xs))

\* std::lower_bound(leg.distances.begin(), leg.distances.end(), distance) - begin()
LowerBound(ds, v) == Bisect([i \in 1 .. Len(ds) |-> ElemLess(ds[i], v)], 0, Len(ds))

\* std::upper_bound(leg.distances.begin(), leg.distances.end(), distance) - begin()
UpperBound(ds, v) == Bisect([i \in 1 .. Len(ds) |-> ~ValueLess(v, ds[i])], 0, Len(ds))

\* Mutant: an index before the first leg is not corrected
LegIndexNoClamp(xs, x) ==
    LET it == LowerBoundX(xs, x)
    IN  IF it # Len(xs) THEN it - 1 ELSE 0

\* Mutant: the iterator's position is taken as the index of the leg
LegIndexNoStepBack(xs, x) ==
    LET it == LowerBoundX(xs, x)
    IN  IF it # Len(xs) THEN Max(it, 0) ELSE 0

\* lines 496-503: the index of the leg under the pixel x
LegIndex(xs, x) ==
    LET it == LowerBoundX(xs, x)
    IN  IF it # Len(xs) THEN Max(it - 1, 0) ELSE 0

\* lines 511-519 and 520-528: the index of a sample from the iterator of a search
SampleIndex(it, size) == IF it # size THEN Max(it, 0) ELSE 0

\* at(i) of a vector of the given size is defined
ValidAt(i, size) == 0 <= i /\ i < size

\* lines 480-550 for a mouse at the pixel mouseX: what is computed and shown.  Indices
\* count from 0 as in the source.
Query(mouseX) ==
    IF legList.elevationLegs = <<>> THEN [what |-> "ignored"]
    ELSE
    LET x == Min(Max(mouseX, X0), width - X0)
        index == LegIndex(waypointX, x)
        distance == QuotientBy(x - X0, horizScale)
    IN  IF ~(/\ ValidAt(index, Len(legList.elevationLegs))
             /\ ValidAt(index, Len(legList.routeMapObjects))
             /\ ValidAt(index + 1, Len(legList.routeMapObjects)))
        THEN [what |-> "undefined", x |-> x, index |-> index]
        ELSE
        LET leg == legList.elevationLegs[index + 1]
            indexLowDist == SampleIndex(LowerBound(leg.distances, distance),
                                        Len(leg.distances))
            indexUpperDist == SampleIndex(UpperBound(leg.distances, distance),
                                          Len(leg.distances))
        IN  IF ~(/\ ValidAt(indexLowDist, Len(leg.elevation))
                 /\ ValidAt(indexUpperDist, Len(leg.elevation))
                 /\ leg.distances # <<>>)
            THEN [what |-> "undefined", x |-> x, index |-> index]
            ELSE [what |-> "highlight",
                  x |-> x,
                  index |-> index,
                  from |-> legList.routeMapObjects[index + 1],
                  to |-> legList.routeMapObjects[index + 2],
                  distance |-> distance,
                  indexLowDist |-> indexLowDist,
                  indexUpperDist |-> indexUpperDist,
                  alt |-> <<Abs(leg.elevation[indexLowDist + 1].alt
                                  + leg.elevation[indexUpperDist + 1].alt), 2>>,
                  legdistpart |-> Minus(distance, leg.distances[1]),
                  legdist |-> leg.distances[Len(leg.distances)] - leg.distances[1],
                  maxElev |-> RoundedElevation(leg.maxElevation)]

\* lines 480-550: the mouse moves over the widget at the pixel mouseX
MouseMoveEvent(mouseX) ==
    /\ fg = "idle"
    /\ UNCHANGED <<widgetVars, projVars, timerVars, histVars, envVars,
                   aircraftDistanceFromStart, painted, future, finishedEvent, fg, task,
                   numStarted>>
    /\ hover' = Query(mouseX)

(* ------------------------------ background ------------------------------ *)

\* A step of computation k changes its locals; its return posts finished() to the
\* watcher if the watcher watches its future
WorkerStep(k, t) ==
    /\ task' = [task EXCEPT ![k] = t]
    /\ finishedEvent' = IF t.pc = "done" /\ k = future THEN TRUE ELSE finishedEvent
    /\ UNCHANGED <<widgetVars, projVars, timerVars, histVars, envVars, viewVars, future, fg,
                   numStarted>>

\* Mutant: the computation copies the route by a blocking call into the foreground
FetchBeginInForeground(k) ==
    /\ task[k].pc = "queued"
    /\ fg = "idle"
    /\ WorkerStep(k, BeginStep(task[k], route))

\* lines 349-361
FetchBegin(k) ==
    /\ task[k].pc = "queued"
    /\ WorkerStep(k, BeginStep(task[k], route))

FetchLeg(k) ==
    /\ task[k].pc = "leg"
    /\ WorkerStep(k, LegStep(task[k], terminate))

FetchProfile(k) ==
    /\ task[k].pc = "profile"
    /\ WorkerStep(k, ProfileStep(task[k], terminate))

FetchSample(k) ==
    /\ task[k].pc = "sample"
    /\ WorkerStep(k, SampleStep(task[k], terminate))

FetchRetain(k) ==
    /\ task[k].pc = "retain"
    /\ WorkerStep(k, RetainStep(task[k], terminate))

(* ------------------------------ environment ------------------------------ *)

\* Time passes
Tick ==
    /\ fg # "destroyed"
    /\ (timerActive /\ timerLeft > 0) \/ sinceArm < UPDATE_TIMEOUT
    /\ timerLeft' = IF timerActive THEN Max(0, timerLeft - TickMs) ELSE timerLeft
    /\ sinceArm' = Min(UPDATE_TIMEOUT, sinceArm + TickMs)
    /\ UNCHANGED <<widgetVars, projVars, timerActive, armedBy, envVars, viewVars, future,
                   finishedEvent, fg, task, numStarted>>

\* The route controller changes the live route, in the foreground: the user appends
\* the next waypoint of the plan
AppendWaypoint ==
    /\ fg = "idle"
    /\ Len(route) < MaxRoute
    /\ route' = Append(route, PlanLat(Len(route) + 1))
    /\ UNCHANGED <<widgetVars, projVars, timerVars, histVars, terrainLoaded, terrain,
                   width, height, showAircraft, simData, viewVars, future,
                   finishedEvent, fg, task, numStarted>>

\* lines 58-59 and 425-432: the elevation model has loaded its tiles and emits
\* updateAvailable, and the connected updateElevation runs in the same event
TerrainLoaded ==
    /\ fg = "idle"
    /\ ~terrainLoaded
    /\ terrainLoaded' = TRUE
    /\ IF ~visible
       THEN UNCHANGED <<timerVars, histVars>>
       ELSE /\ TimerStart(UPDATE_TIMEOUT)
            /\ armedBy' = IF timerActive THEN "restart" ELSE "trigger"
            /\ sinceArm' = 0
    /\ UNCHANGED <<widgetVars, projVars, route, terrain, width, height, showAircraft,
                   simData, viewVars, future, finishedEvent, fg, task, numStarted>>

Next ==
    \/ \E g \in BOOLEAN : RouteChanged(g)
    \/ UpdateElevation
    \/ ShowEvent
    \/ HideEvent
    \/ UpdateTimeout
    \/ UpdateTimeoutResume
    \/ UpdateFinished
    \/ Destructor
    \/ DestructorResume
    \/ \E k \in Runs : FetchBegin(k)
    \/ \E k \in Runs : FetchLeg(k)
    \/ \E k \in Runs : FetchProfile(k)
    \/ \E k \in Runs : FetchSample(k)
    \/ \E k \in Runs : FetchRetain(k)
    \/ Tick
    \/ AppendWaypoint
    \/ TerrainLoaded

Spec == Init /\ [][Next]_vars

\* A step of one of the computations
Worker ==
    \E k \in Runs :
        FetchBegin(k) \/ FetchLeg(k) \/ FetchProfile(k) \/ FetchSample(k) \/ FetchRetain(k)

\* The thread pool runs a computation that is queued (waitForFinished runs it itself
\* if no thread has taken it), a running computation goes on, and a wait for a
\* finished future returns
FairSpec ==
    /\ Spec
    /\ WF_vars(Worker)
    /\ WF_vars(UpdateTimeoutResume)
    /\ WF_vars(DestructorResume)

\* The thread pool runs the computations and the waits return as in FairSpec;
\* besides, time passes while the timer runs, and the event loop delivers the
\* timeout() of the expired timer and the finished() of the watched future
LiveSpec ==
    /\ FairSpec
    /\ WF_vars(Tick)
    /\ WF_vars(UpdateTimeout)
    /\ WF_vars(UpdateFinished)

(* ------------------- one computation on a route, and its display ------------------- *)

\* Positions of the waypoints: segments of 0 to MaxLat + 2 arc minutes
AsmLats == {0, 1, MaxLat + 2}

\* The routes of up to MaxRoute + 2 waypoints
AsmRoutes == UNION {[1 .. n -> AsmLats] : n \in 0 .. MaxRoute + 2}

AsmTerrains == {SteepTerrain, GentleTerrain, PlateauTerrain}

\* The widget was shown with a route loaded: showEvent and updateTimeout have run,
\* and the first computation is queued
AsmInit ==
    /\ visible = TRUE
    /\ terminate = FALSE
    /\ legList = EmptyLegList
    /\ waypointX = <<>>
    /\ poly = <<>>
    /\ vertScale = <<0, 1>>
    /\ horizScale = <<0, 1>>
    /\ maxRouteElevationFt = 0
    /\ flightplanAltFt = 0
    /\ maxHeight = 0
    /\ simData = NoSimData
    /\ timerActive = FALSE
    /\ timerLeft = 0
    /\ future = 1
    /\ finishedEvent = FALSE
    /\ fg = "idle"
    /\ route \in AsmRoutes
    /\ task = [k \in Runs |-> IF k = 1
                              THEN [NoTask EXCEPT !.pc = "queued", !.startRoute = route]
                              ELSE NoTask]
    /\ terrainLoaded \in BOOLEAN
    /\ terrain \in AsmTerrains
    /\ ~terrainLoaded => terrain = SteepTerrain
    /\ aircraftDistanceFromStart = 0
    /\ painted = NoPaint
    /\ hover = NoHover
    /\ width = WidgetWidth
    /\ height = WidgetHeight
    /\ showAircraft = TRUE
    /\ numStarted = 1
    /\ armedBy = "show"
    /\ sinceArm = 0

AsmNext ==
    \/ \E k \in Runs : FetchBegin(k)
    \/ \E k \in Runs : FetchLeg(k)
    \/ \E k \in Runs : FetchProfile(k)
    \/ \E k \in Runs : FetchSample(k)
    \/ \E k \in Runs : FetchRetain(k)
    \/ UpdateFinished
    \/ PaintEvent

AsmSpec == AsmInit /\ [][AsmNext]_vars

(* ----------------------- the display of a finished profile ----------------------- *)

\* One step of fetchRouteElevationsThread with terminate not set
StepOf(t) ==
    CASE t.pc = "queued" -> BeginStep(t, route)
      [] t.pc = "leg" -> LegStep(t, FALSE)
      [] t.pc = "profile" -> ProfileStep(t, FALSE)
      [] t.pc = "sample" -> SampleStep(t, FALSE)
      [] t.pc = "retain" -> RetainStep(t, FALSE)

\* fetchRouteElevationsThread run from t to its return, with terminate never set
RECURSIVE RunToEnd(_)
RunToEnd(t) ==
    CHOOSE result \in {IF now.pc = "done" THEN now ELSE RunToEnd(StepOf(now)) : now \in {t}} :
        TRUE

\* The routes of up to MaxRoute waypoints at the two ends of the model's meridian
ProjRoutes == UNION {[1 .. n -> {0, MaxLat + 2}] : n \in 0 .. MaxRoute}

\* The sizes of the widget
ProjSizes == {<<WidgetWidth, WidgetHeight>>, <<WidgetWidth \div 2, WidgetHeight \div 2>>}

\* What the simulator reports: no position, an aircraft below the cruise altitude
\* at one end of the model's meridian, or one above it at the other end
SimInputs ==
    {NoSimData, MakePos(0, CruisingAlt \div 2), MakePos(MaxLat + 2, CruisingAlt * 2)}

\* The widget was shown with a route loaded, and its first computation has returned:
\* finished() is posted
ProjInit ==
    /\ visible = TRUE
    /\ terminate = FALSE
    /\ legList = EmptyLegList
    /\ waypointX = <<>>
    /\ poly = <<>>
    /\ vertScale = <<0, 1>>
    /\ horizScale = <<0, 1>>
    /\ maxRouteElevationFt = 0
    /\ flightplanAltFt = 0
    /\ maxHeight = 0
    /\ simData = NoSimData
    /\ timerActive = FALSE
    /\ timerLeft = 0
    /\ future = 1
    /\ finishedEvent = TRUE
    /\ fg = "idle"
    /\ route \in ProjRoutes
    /\ terrainLoaded \in BOOLEAN
    /\ terrain \in AsmTerrains
    /\ ~terrainLoaded => terrain = SteepTerrain
    /\ task = [k \in Runs |->
                  IF k = 1
                  THEN RunToEnd([NoTask EXCEPT !.pc = "queued", !.startRoute = route])
                  ELSE NoTask]
    /\ aircraftDistanceFromStart = 0
    /\ painted = NoPaint
    /\ hover = NoHover
    /\ width = WidgetWidth
    /\ height = WidgetHeight
    /\ showAircraft = TRUE
    /\ numStarted = 1
    /\ armedBy = "show"
    /\ sinceArm = 0

\* The user switches the aircraft on the map on or off
ToggleAircraft ==
    /\ fg = "idle"
    /\ showAircraft' = ~showAircraft
    /\ UNCHANGED <<widgetVars, projVars, timerVars, histVars, route, terrainLoaded,
                   terrain, width, height, simData, viewVars, future, finishedEvent, fg,
                   task, numStarted>>

\* The user starts a new, empty flight plan
ClearRoute ==
    /\ fg = "idle"
    /\ route # <<>>
    /\ route' = <<>>
    /\ UNCHANGED <<widgetVars, projVars, timerVars, histVars, terrainLoaded, terrain,
                   width, height, showAircraft, simData, viewVars, future,
                   finishedEvent, fg, task, numStarted>>

ProjNext ==
    \/ UpdateFinished
    \/ RouteChanged(FALSE)
    \/ \E size \in ProjSizes : ResizeEvent(size[1], size[2])
    \/ \E data \in SimInputs : \E index \in -1 .. Len(route) : SimDataChanged(data, index)
    \/ DisconnectedFromSimulator
    \/ ToggleAircraft
    \/ ClearRoute

ProjSpec == ProjInit /\ [][ProjNext]_vars

(* ------------------- the projection under the mouse ------------------- *)

\* The routes of up to MaxRoute waypoints
ViewRoutes == UNION {[1 .. n -> AsmLats] : n \in 0 .. MaxRoute}

\* The sizes of the widget: wide, a few pixels between the margins, the two margins
\* and nothing between them, less than the two margins, and one margin wide with no
\* height (the end of a profile that ends at sea level is drawn at the pixel (0, 0))
ViewSizes ==
    {<<WidgetWidth, WidgetHeight>>, <<NarrowWidth, WidgetHeight \div 2>>,
     <<2 * X0, WidgetHeight>>, <<2 * X0 - 2, WidgetHeight>>, <<X0, 0>>}

\* The set of the elements of a sequence
Range(seq) == {seq[i] : i \in 1 .. Len(seq)}

\* Where the mouse is: left of, on and right of the margins, between them, and on
\* the lines of the waypoints
MouseXs ==
    {0, X0, X0 + 1, X0 + 3, X0 + 5, X0 + WidgetWidth \div 6, X0 + WidgetWidth \div 3,
     WidgetWidth - X0, WidgetWidth}
        \cup Range(waypointX)

\* The widget was shown with a route loaded, and its first computation has returned:
\* finished() is posted
ViewInit ==
    /\ visible = TRUE
    /\ terminate = FALSE
    /\ legList = EmptyLegList
    /\ waypointX = <<>>
    /\ poly = <<>>
    /\ vertScale = <<0, 1>>
    /\ horizScale = <<0, 1>>
    /\ maxRouteElevationFt = 0
    /\ flightplanAltFt = 0
    /\ maxHeight = 0
    /\ simData = NoSimData
    /\ timerActive = FALSE
    /\ timerLeft = 0
    /\ future = 1
    /\ finishedEvent = TRUE
    /\ fg = "idle"
    /\ route \in ViewRoutes
    /\ terrainLoaded \in BOOLEAN
    /\ terrain \in AsmTerrains
    /\ ~terrainLoaded => terrain = SteepTerrain
    /\ task = [k \in Runs |->
                  IF k = 1
                  THEN RunToEnd([NoTask EXCEPT !.pc = "queued", !.startRoute = route])
                  ELSE NoTask]
    /\ aircraftDistanceFromStart = 0
    /\ painted = NoPaint
    /\ hover = NoHover
    /\ width = WidgetWidth
    /\ height = WidgetHeight
    /\ showAircraft = TRUE
    /\ numStarted = 1
    /\ armedBy = "show"
    /\ sinceArm = 0

ViewNext ==
    \/ UpdateFinished
    \/ \E size \in ViewSizes : ResizeEvent(size[1], size[2])
    \/ \E mouseX \in MouseXs : MouseMoveEvent(mouseX)

ViewSpec == ViewInit /\ [][ViewNext]_vars

(* ======================= properties of the scheduler ======================= *)

\* The computation k has returned
Done(k) == task[k].pc = "done"

\* The finished() notification of computation k is still to be delivered
Pending(k) == k = future /\ finishedEvent

\* A step applies the result of computation k to legList
Applies(k) == task'[k].applied /\ ~task[k].applied

\* projVars is the projection of the profile ll
ProjectionOf(ll) ==
    \E nan \in NanChoices(ll) :
        \E sc \in {ScreenCoords(ll, nan)} :
            /\ maxRouteElevationFt = sc.maxRouteElevationFt
            /\ flightplanAltFt = sc.flightplanAltFt
            /\ maxHeight = sc.maxHeight
            /\ vertScale = sc.vertScale
            /\ horizScale = sc.horizScale
            /\ waypointX = sc.waypointX
            /\ poly = sc.poly

\* C1: at most one computation is in flight in every state, and a computation is
\* started only in a state where terminate is set and no computation is in flight
SingleFlight ==
    /\ [](Cardinality(InFlight) <= 1)
    /\ [][numStarted' # numStarted => terminate /\ InFlight = {}]_vars

\* C1 witness: the foreground waits in updateTimeout for a computation that is in the
\* middle of a leg, before it starts the second one
SingleFlightWitness ==
    /\ fg = "updateTimeout"
    /\ terminate
    /\ numStarted = 1
    /\ task[1].pc = "sample"

\* C2: no result of a computation that observed terminate is ever applied, and
\* legList changes only when updateFinished takes over the result of a computation
\* that did not observe terminate
CancelledNeverApplied ==
    /\ [](\A k \in Runs : ~(task[k].cancelled /\ task[k].applied))
    /\ [][legList' # legList =>
            /\ UpdateFinished
            /\ ~task[future].cancelled
            /\ legList' = task[future].legs]_vars

\* C2 witness: the first computation observed terminate, has settled and was
\* superseded, and the profile on display is still the one of before it was started
CancelledNeverAppliedWitness ==
    /\ numStarted = 2
    /\ Done(1) /\ task[1].cancelled /\ ~task[1].applied
    /\ legList = EmptyLegList
    /\ fg = "idle"

\* C3: a result is applied only while its computation is the most recently started
\* one, and the value assigned to legList is that computation's result
MostRecentApplied ==
    [][\A k \in Runs : Applies(k) =>
            /\ k = numStarted
            /\ Done(k)
            /\ legList' = task[k].legs]_vars

\* C3 witness: of two overlapping computations the first was superseded without being
\* applied and the second one's result is on display
MostRecentAppliedWitness ==
    /\ numStarted = 2
    /\ Done(1) /\ ~task[1].applied
    /\ Done(2) /\ task[2].applied
    /\ legList = task[2].legs
    /\ legList.elevationLegs # <<>>

\* C4 as claimed: every computation that has returned without observing terminate,
\* and whose notification is not pending any more, was applied
CompletedAlwaysApplied ==
    \A k \in Runs : (Done(k) /\ ~task[k].cancelled /\ ~Pending(k)) => task[k].applied

\* C4 amended: when updateFinished handles a notification while the widget is visible,
\* the computation did not observe terminate, its result becomes legList, and projVars
\* is the projection of the new legList
CompletedAppliedWhenVisible ==
    [][(UpdateFinished /\ visible) =>
            /\ Done(future)
            /\ ~task[future].cancelled
            /\ Applies(future)
            /\ legList' = task[future].legs
            /\ ProjectionOf(legList)']_vars

\* C4 witness: a completed profile with legs is on display, projected
CompletedAppliedWitness ==
    /\ future # 0
    /\ task[future].applied
    /\ legList = task[future].legs
    /\ Len(legList.elevationLegs) = 2
    /\ Len(waypointX) = 3

\* C5 as claimed: a computation that observed terminate returned no legs and zero
\* totals
CancelledReturnsEmpty ==
    \A k \in Runs : (Done(k) /\ task[k].cancelled) =>
        /\ task[k].legs.elevationLegs = <<>>
        /\ task[k].legs.totalDistance = 0
        /\ task[k].legs.totalNumPoints = 0
        /\ task[k].legs.maxRouteElevation = 0

\* C6 as claimed: the route copied into a computation's list is the live route of the
\* moment updateTimeout started the computation
SnapshotIsRouteAtStart ==
    \A k \in Runs : task[k].snapAtStart

\* C7: a trigger that reaches a visible widget sets the timer to the full delay and
\* starts nothing; the timeout of a timer armed by a trigger comes no sooner than
\* UPDATE_TIMEOUT after the last trigger, uses the timer up and leads to one start
Debounce ==
    /\ [][((RouteChanged(TRUE) \/ UpdateElevation \/ TerrainLoaded) /\ visible) =>
            /\ timerActive'
            /\ timerLeft' = UPDATE_TIMEOUT
            /\ numStarted' = numStarted
            /\ fg' = fg]_vars
    /\ [][(UpdateTimeout /\ visible /\ armedBy \in {"trigger", "restart"}) =>
            /\ sinceArm >= UPDATE_TIMEOUT
            /\ ~timerActive'
            /\ fg' = "updateTimeout"]_vars
    /\ [][numStarted' # numStarted =>
            /\ numStarted' = numStarted + 1
            /\ fg = "updateTimeout"]_vars

\* C7 witness: a trigger restarted the running timer, and the handler of its timeout
\* is about to start the computation
DebounceWitness ==
    /\ armedBy = "restart"
    /\ sinceArm = UPDATE_TIMEOUT
    /\ ~timerActive
    /\ fg = "updateTimeout"

\* C8: while the widget is hidden no computation is started and none is asked to
\* stop by updateTimeout, and unless the widget is shown the timer is not armed
HiddenStartsNothing ==
    [][~visible =>
            /\ numStarted' = numStarted
            /\ future' = future
            /\ fg' # "updateTimeout"
            /\ InFlight' \subseteq InFlight
            /\ ~visible' => /\ timerActive' => timerActive
                            /\ timerLeft' <= timerLeft
                            /\ armedBy' = armedBy]_vars

\* C8 witness: the timer was armed by triggers while the widget was visible and has
\* run out while it was hidden, and no computation was ever started
HiddenStartsNothingWitness ==
    /\ ~visible
    /\ armedBy = "restart"
    /\ ~timerActive
    /\ numStarted = 0
    /\ fg = "idle"

\* C9: showEvent makes the widget visible and sets the timer to delay 0; the timeout
\* handled while the widget is visible goes to the wait with terminate set, and the
\* wait ends with a new computation queued
ShowSchedulesNow ==
    /\ [][ShowEvent => visible' /\ timerActive' /\ timerLeft' = 0]_vars
    /\ [][(UpdateTimeout /\ visible) => fg' = "updateTimeout" /\ terminate']_vars
    /\ [][(fg = "updateTimeout" /\ fg' # fg) =>
            /\ numStarted' = numStarted + 1
            /\ future' = numStarted'
            /\ task'[future'].pc = "queued"
            /\ ~terminate']_vars

\* C9 witness: the computation was started with no time gone since showEvent
ShowSchedulesNowWitness ==
    /\ visible
    /\ armedBy = "show"
    /\ sinceArm = 0
    /\ ~timerActive
    /\ numStarted = 1
    /\ task[1].pc = "queued"

\* C10: once the destructor has returned no computation is in flight, and terminate
\* is set
DestructorWaits ==
    fg = "destroyed" => (InFlight = {} /\ terminate)

\* C10 witness: the widget was destroyed while its computation was running; the
\* computation has observed terminate and returned
DestructorWaitsWitness ==
    /\ fg = "destroyed"
    /\ future # 0
    /\ task[future].cancelled

\* C27: routeChanged(false) handled while the widget is visible leaves legList, the
\* timer, the computations and everything else but the projection as they are, and the
\* projection is that of legList afterwards; while the widget is hidden routeChanged
\* can be handled, with either argument, and no handling of it changes the state
MetadataChangeFrame ==
    /\ [][(visible /\ RouteChanged(FALSE)) =>
            /\ UNCHANGED <<widgetVars, timerVars, histVars, envVars, viewVars, future,
                           finishedEvent, fg, task, numStarted>>
            /\ ProjectionOf(legList)']_vars
    /\ []((~visible /\ fg = "idle") =>
            \A g \in BOOLEAN :
                /\ ENABLED RouteChanged(g)
                /\ ~ENABLED (RouteChanged(g) /\ vars' # vars))

\* C27 witness: the timer runs and a computation is under way with no result applied
\* yet, and a metadata-only change of the route has projected the empty profile
MetadataChangeFrameWitness ==
    /\ visible
    /\ timerActive /\ timerLeft = UPDATE_TIMEOUT
    /\ InFlight # {}
    /\ \A k \in Runs : ~task[k].applied
    /\ legList = EmptyLegList
    /\ Len(poly) = 2
    /\ maxHeight = CruisingAlt

\* A step of a trigger (a change of the route's geometry, new elevation data), of
\* showing or hiding the widget, or of its destruction
Disturbance ==
    \/ RouteChanged(TRUE)
    \/ UpdateElevation
    \/ TerrainLoaded
    \/ ShowEvent
    \/ HideEvent
    \/ Destructor

\* The widget is there and visible
Shown == visible /\ fg \notin {"destructor", "destroyed"}

\* The computation started last was started by the timeout of the timer armed last,
\* has run to its end without observing terminate, and its result is legList
Fresh ==
    /\ ~timerActive
    /\ fg = "idle"
    /\ future = numStarted
    /\ future # 0
    /\ Done(future)
    /\ ~task[future].cancelled
    /\ task[future].applied
    /\ legList = task[future].legs

\* C29: if from some point on the widget is there and visible and no trigger, show,
\* hide or destruction happens (and the timer is not left armed at the bound of the
\* model on the number of computations), then from some point on legList is the
\* result of the computation started last, which was started after the timer was
\* armed last and did not observe terminate; and a timer armed while the widget is
\* visible is not disarmed but by its timeout
Freshness ==
    /\ (/\ <>[][~Disturbance]_vars
        /\ <>[]Shown
        /\ <>[](timerActive => numStarted < MaxRuns))
       => <>[]Fresh
    /\ [][(timerActive /\ ~timerActive') => UpdateTimeout]_vars
    /\ [][(UpdateTimeout /\ visible) => fg' = "updateTimeout"]_vars

\* C29 witness: a trigger has superseded the first computation, which observed
\* terminate; the second one has run to its end on a route with a leg, and its result
\* is on display
FreshnessWitness ==
    /\ Shown
    /\ Fresh
    /\ numStarted = 2
    /\ task[1].cancelled
    /\ armedBy \in {"trigger", "restart"}
    /\ legList.elevationLegs # <<>>

(* ======================= properties of the computation ======================= *)

\* C12: in states where terminate is set a computation makes at most one more call of
\* heightProfile and retains at most one more sample before it returns, and a check
\* of terminate made with legs or samples left to do ends the computation
CancellationLatency ==
    /\ [](\A k \in Runs : task[k].lateCalls <= 1 /\ task[k].lateSamples <= 1)
    /\ [][\A k \in Runs :
            (/\ terminate
             /\ task'[k] # task[k]
             /\ \/ task[k].pc = "leg" /\ task[k].i < Len(task[k].legs.routeMapObjects)
                \/ task[k].pc = "sample" /\ task[k].j < Len(task[k].elev))
            => (Done(k)' /\ task'[k].cancelled)]_vars

\* C12 witness: terminate was set between the check at the head of a leg and the
\* call of heightProfile; the call was made, and the computation is at the check of
\* the first sample with a second leg still to do
CancellationLatencyWitness ==
    \E k \in Runs :
        /\ terminate
        /\ task[k].pc = "sample"
        /\ task[k].lateCalls = 1
        /\ task[k].j = 0
        /\ task[k].i + 1 < Len(task[k].legs.routeMapObjects)


\* C11: the waits of updateTimeout and of the destructor end, and a computation that
\* runs while terminate is set returns
WaitsEnd ==
    /\ (fg = "updateTimeout") ~> (fg = "idle")
    /\ (fg = "destructor") ~> (fg = "destroyed")
    /\ \A k \in Runs : (terminate /\ k \in InFlight) ~> Done(k)

\* C11 witness: the destructor waits for a computation that has a second leg to do,
\* and the computation is about to handle a sample
WaitsEndWitness ==
    /\ fg = "destructor"
    /\ terminate
    /\ future \in InFlight
    /\ task[future].pc = "retain"
    /\ task[future].i + 1 < Len(task[future].legs.routeMapObjects)


(* ========================= properties of the profile ========================= *)

\* Sum over the legs from the n-th on of (last cumulative distance - first one)
RECURSIVE LegSpans(_, _)
LegSpans(legs, n) ==
    IF n > Len(legs) THEN 0
    ELSE LET d == legs[n].distances
         IN  (IF d = <<>> THEN 0 ELSE d[Len(d)] - d[1]) + LegSpans(legs, n + 1)

\* Number of retained samples of the legs from the n-th on
RECURSIVE RetainedCount(_, _)
RetainedCount(legs, n) ==
    IF n > Len(legs) THEN 0
    ELSE Len(legs[n].elevation) + RetainedCount(legs, n + 1)

\* Maximum of maxElevation over the legs from the n-th on (there is one)
RECURSIVE MaxLegElevation(_, _)
MaxLegElevation(legs, n) ==
    IF n >= Len(legs) THEN legs[n].maxElevation
    ELSE Max(legs[n].maxElevation, MaxLegElevation(legs, n + 1))

\* The computation k has run to its end on a route of at least n waypoints
Completed(k, n) ==
    /\ Done(k)
    /\ ~task[k].cancelled
    /\ Len(task[k].legs.routeMapObjects) >= n

\* C13: the result of a computation that ran to its end on N >= 2 waypoints has N - 1
\* legs, and its totals are the sum of the legs' distance spans, the number of
\* retained samples and the maximum of the legs' maxElevation
AssembledTotals ==
    \A k \in Runs :
        Completed(k, 2) =>
            LET ll == task[k].legs
            IN  /\ Len(ll.elevationLegs) = Len(ll.routeMapObjects) - 1
                /\ ll.totalDistance = LegSpans(ll.elevationLegs, 1)
                /\ ll.totalNumPoints = RetainedCount(ll.elevationLegs, 1)
                /\ ll.maxRouteElevation = MaxLegElevation(ll.elevationLegs, 1)

\* C13 witness: a computation ran to its end on five waypoints over rising ground,
\* and its last leg is not the highest one
AssembledTotalsWitness ==
    \E k \in Runs :
        /\ Completed(k, 5)
        /\ task[k].legs.totalDistance > 0
        /\ task[k].legs.totalNumPoints > 8
        /\ task[k].legs.maxRouteElevation > task[k].legs.elevationLegs[4].maxElevation
        /\ task[k].legs.elevationLegs[4].maxElevation > 0


\* The cumulative distance at the end of the first n legs
DistanceAfter(legs, n) ==
    IF n = 0 THEN 0 ELSE legs[n].distances[Len(legs[n].distances)]

\* The leg starts at the cumulative distance start, has one distance per retained
\* sample, and each distance is the one before plus the way from the sample before
LegDistancesFrom(leg, start) ==
    /\ Len(leg.distances) = Len(leg.elevation)
    /\ leg.distances # <<>> => leg.distances[1] = start
    /\ \A i \in 2 .. Len(leg.distances) :
            /\ leg.distances[i] >= leg.distances[i - 1]
            /\ leg.distances[i] =
                   leg.distances[i - 1] + DistanceNm(leg.elevation[i - 1], leg.elevation[i])

\* Every leg of the list continues the distances of the leg before
ListDistances(ll) ==
    \A n \in 1 .. Len(ll.elevationLegs) :
        /\ ll.elevationLegs[n].distances # <<>>
        /\ LegDistancesFrom(ll.elevationLegs[n], DistanceAfter(ll.elevationLegs, n - 1))

\* C14: in every leg, appended or under construction, of every list, distances is as
\* long as elevation and non-decreasing, and goes on from the total before the leg by
\* the way from one retained sample to the next
DistancesFollowSamples ==
    /\ ListDistances(legList)
    /\ \A k \in Runs :
            /\ ListDistances(task[k].legs)
            /\ task[k].pc \in {"sample", "retain"} =>
                    /\ LegDistancesFrom(task[k].leg,
                            DistanceAfter(task[k].legs.elevationLegs,
                                          Len(task[k].legs.elevationLegs)))
                    /\ task[k].leg.distances # <<>> =>
                            task[k].legs.totalDistance =
                                task[k].leg.distances[Len(task[k].leg.distances)]

\* C14 witness: in the fourth leg of a profile on display a sample was dropped, and
\* the distance of the next retained one is 2 nm more than that of the one before
DistancesFollowSamplesWitness ==
    /\ Len(legList.elevationLegs) = 4
    /\ Len(legList.elevationLegs[4].distances) = 3
    /\ legList.elevationLegs[4].distances[2] = legList.elevationLegs[4].distances[1] + 2
    /\ legList.elevationLegs[4].distances[1] > 0


\* The samples the n-th leg of the list was built from
SegmentSamples(ll, n) ==
    LET lastRmo == ll.routeMapObjects[n]
        rmo == ll.routeMapObjects[n + 1]
    IN  WithFallback(HeightProfile(lastRmo, rmo), lastRmo, rmo)

\* C15: in the result of a computation that ran to its end, every leg begins with
\* the first and ends with the last sample of its segment, and has at least
\* min(2, number of samples) retained samples
BoundaryPreserved ==
    \A k \in Runs :
        Completed(k, 2) =>
            \A n \in 1 .. Len(task[k].legs.elevationLegs) :
                LET retained == task[k].legs.elevationLegs[n].elevation
                    elev == SegmentSamples(task[k].legs, n)
                IN  /\ Len(retained) >= Min(2, Len(elev))
                    /\ retained[1] = SamplePos(elev[1])
                    /\ retained[Len(retained)] = SamplePos(elev[Len(elev)])

\* C15 witness: the fourth leg of a result is made of the two samples of its segment,
\* the last one at an altitude within 10 ft of the first
BoundaryPreservedWitness ==
    \E k \in Runs :
        /\ Completed(k, 5)
        /\ Len(SegmentSamples(task[k].legs, 4)) = 2
        /\ LET retained == task[k].legs.elevationLegs[4].elevation
           IN  /\ Len(retained) = 2
               /\ retained[1].alt # retained[2].alt
               /\ AlmostEqual(retained[1].alt, retained[2].alt, 10)


\* The step of computation k that handles a sample leaves the leg as it is
DropsSample(k) == FetchRetain(k) /\ task'[k].leg = task[k].leg

\* The step of computation k that handles a sample appends it to the leg
RetainsSample(k) ==
    /\ FetchRetain(k)
    /\ task'[k].leg.elevation =
           Append(task[k].leg.elevation, SamplePos(task[k].elev[task[k].j + 1]))

\* C16: a sample is dropped exactly when it is neither the first nor the last of its
\* segment, at least two legs are accumulated and its altitude is less than 10 ft from
\* that of the last retained sample; else it is retained.  Line 396 requires more than
\* two legs: the second sample of the third leg, 6 ft above the first, is retained.
ThinningAfterTwoLegs ==
    [][\A k \in Runs : FetchRetain(k) =>
            LET t == task[k]
                similar == /\ t.j # 0
                           /\ t.j # Len(t.elev) - 1
                           /\ Len(t.legs.elevationLegs) >= 2
                           /\ Abs(SamplePos(t.elev[t.j + 1]).alt - t.lastPos.alt) < 10
            IN  IF similar THEN DropsSample(k) ELSE RetainsSample(k)]_vars


\* C17 as claimed: the total after every leg of a list is strictly greater than the
\* total after the leg before
TotalStrictlyIncreases ==
    \A k \in Runs :
        \A n \in 1 .. Len(task[k].legs.elevationLegs) :
            DistanceAfter(task[k].legs.elevationLegs, n) >
                DistanceAfter(task[k].legs.elevationLegs, n - 1)

\* The way in nm along the retained samples of a leg, from sample i on
RECURSIVE WayAlong(_, _)
WayAlong(elevation, i) ==
    IF i >= Len(elevation) THEN 0
    ELSE DistanceNm(elevation[i], elevation[i + 1]) + WayAlong(elevation, i + 1)

\* C17 amended: the total after a leg is never less than the total after the leg
\* before: it is that total plus the way along the retained samples of the leg, so it
\* is the same when these all lie at one position
TotalNeverDecreases ==
    \A k \in Runs :
        \A n \in 1 .. Len(task[k].legs.elevationLegs) :
            LET leg == task[k].legs.elevationLegs[n]
                before == DistanceAfter(task[k].legs.elevationLegs, n - 1)
                after == DistanceAfter(task[k].legs.elevationLegs, n)
            IN  /\ after >= before
                /\ after = before + WayAlong(leg.elevation, 1)
                /\ (\A i \in 1 .. Len(leg.elevation) : leg.elevation[i].lat = leg.elevation[1].lat)
                       => after = before

\* C17 witness: the second leg of a result, between two waypoints at one position and
\* built from the flat fallback, adds nothing to the total, the legs around it do
TotalNeverDecreasesWitness ==
    \E k \in Runs :
        /\ Completed(k, 4)
        /\ ~terrainLoaded
        /\ DistanceAfter(task[k].legs.elevationLegs, 1) > 0
        /\ DistanceAfter(task[k].legs.elevationLegs, 2) =
               DistanceAfter(task[k].legs.elevationLegs, 1)
        /\ Len(task[k].legs.elevationLegs[2].elevation) = 2
        /\ DistanceAfter(task[k].legs.elevationLegs, 3) >
               DistanceAfter(task[k].legs.elevationLegs, 2)


\* The leg built from the fallback between the waypoints i and i + 1 of the list
FlatLeg(ll, i) ==
    [elevation |-> <<MakePos(ll.routeMapObjects[i], 0), MakePos(ll.routeMapObjects[i + 1], 0)>>,
     distances |-> <<ll.totalDistance
                        - DistanceNm(MakePos(ll.routeMapObjects[i], 0),
                                     MakePos(ll.routeMapObjects[i + 1], 0)),
                     ll.totalDistance>>,
     maxElevation |-> 0]

\* C18: when heightProfile returns nothing for a pair of waypoints the samples of the
\* leg are two, at the positions of the two waypoints and at altitude 0; none is
\* dropped, and the leg appended has both, maxElevation 0, and the computation is at
\* the head of the next leg
EmptyTerrainFallback ==
    /\ [](\A k \in Runs : task[k].fallback =>
            /\ task[k].pc \in {"sample", "retain"}
            /\ task[k].elev = <<[lat |-> task[k].legs.routeMapObjects[task[k].i], altM |-> 0],
                                [lat |-> task[k].legs.routeMapObjects[task[k].i + 1], altM |-> 0]>>
            /\ Len(task[k].leg.elevation) = task[k].j
            /\ task[k].leg.maxElevation = 0)
    /\ [][\A k \in Runs :
            (task[k].fallback /\ FetchSample(k) /\ task[k].j = Len(task[k].elev)) =>
                /\ task'[k].pc = "leg"
                /\ task'[k].i = task[k].i + 1
                /\ task'[k].legs.elevationLegs =
                       Append(task[k].legs.elevationLegs, FlatLeg(task[k].legs, task[k].i))]_vars

\* C18 witness: the first leg of a route of three waypoints was built from the
\* fallback; the elevation model has its tiles now and the computation is at the
\* head of the second leg
EmptyTerrainFallbackWitness ==
    \E k \in Runs :
        /\ task[k].pc = "leg"
        /\ task[k].i = 2
        /\ Len(task[k].legs.routeMapObjects) = 3
        /\ task[k].legs.elevationLegs = <<FlatLeg(task[k].legs, 1)>>
        /\ task[k].legs.totalDistance = 1
        /\ terrainLoaded
        /\ ~terminate


\* C19: on a route of 0 or 1 waypoints the computation returns the copy of the route,
\* no legs and totals 0, and whatever paintEvent has drawn of such a profile is the
\* placeholder, with no entry of waypointX or of the snapshot read
DegenerateRoute ==
    Len(route) <= 1 =>
        /\ \A k \in Runs : Completed(k, 0) =>
                task[k].legs = [EmptyLegList EXCEPT !.routeMapObjects = route]
        /\ legList.elevationLegs = <<>>
        /\ painted.what # "nothing" =>
                painted = [what |-> "placeholder", waypointReads |-> {}, snapshotReads |-> {}]

\* C19 witness: the result for a route of one waypoint is on display, with the
\* waypoint in its snapshot, and was painted
DegenerateRouteWitness ==
    /\ Len(route) = 1
    /\ task[1].applied
    /\ legList = task[1].legs
    /\ legList.routeMapObjects = route
    /\ waypointX # <<>>
    /\ painted.what = "placeholder"


\* The distances of the list go on from leg to leg: the first one is 0, every leg
\* begins at the distance the leg before ends at, and the total is the last one
Continuous(ll) ==
    LET legs == ll.elevationLegs
        first(n) == legs[n].distances[1]
        last(n) == legs[n].distances[Len(legs[n].distances)]
    IN  legs # <<>> =>
            /\ first(1) = 0
            /\ \A n \in 2 .. Len(legs) : first(n) = last(n - 1)
            /\ ll.totalDistance = last(Len(legs))

\* C28: in the result of every computation that ran to its end, and in the profile on
\* display, the first distance of the first leg is 0, the first distance of every
\* later leg is the last distance of the leg before, and totalDistance is the last
\* distance of the last leg
DistancesContinuous ==
    /\ Continuous(legList)
    /\ \A k \in Runs : Completed(k, 0) => Continuous(task[k].legs)

\* C28 witness: the profile on display has four legs; its third leg has no length, and
\* its fourth, of which a sample was dropped, begins where the second ends
DistancesContinuousWitness ==
    /\ Len(legList.elevationLegs) = 4
    /\ LET legs == legList.elevationLegs
       IN  /\ legs[2].distances[1] > 0
           /\ legs[3].distances[Len(legs[3].distances)] = legs[3].distances[1]
           /\ legs[4].distances[1] = legs[2].distances[Len(legs[2].distances)]
           /\ Len(legs[4].distances) = 3
           /\ legList.totalDistance = legs[4].distances[1] + 3

(* ======================= properties of the projection ======================= *)

\* The step runs updateScreenCoords
Projects ==
    \/ finishedEvent /\ visible /\ ~terminate /\ UpdateFinished
    \/ visible /\ UNCHANGED <<finishedEvent, envVars>> /\ RouteChanged(FALSE)
    \/ UNCHANGED <<finishedEvent, simData, showAircraft, route>>
           /\ \E size \in ProjSizes : ResizeEvent(size[1], size[2])
    \/ simData' = NoSimData /\ UNCHANGED <<finishedEvent, showAircraft, route>>
           /\ DisconnectedFromSimulator
    \/ showAircraft /\ ~IsFlightplanEmpty /\ simData'.alt > maxHeight
           /\ \E data \in {simData'} \cap SimInputs : \E index \in 0 .. Len(route) :
                  SimDataChanged(data, index)

\* m is the smallest multiple of 500 that is at least x
SmallestMultipleOf500(m, x) ==
    /\ m % 500 = 0
    /\ m >= x
    /\ m - 500 < x

\* C20: after a step that runs updateScreenCoords, maxRouteElevationFt is the smallest
\* multiple of 500 that is at least legList.maxRouteElevation + 1000, and maxHeight is
\* the greatest of it, the cruise altitude and, if the stored position is valid, the
\* aircraft is shown and the plan is not empty, the aircraft's altitude; 0 ft gives
\* 1000 ft and 10500 ft gives 11500 ft
AxisTop ==
    /\ [](RoundedElevation(0) = 1000 /\ RoundedElevation(10500) = 11500)
    /\ [][Projects =>
            /\ SmallestMultipleOf500(maxRouteElevationFt', legList'.maxRouteElevation + 1000)
            /\ flightplanAltFt' = CruisingAlt
            /\ LET top == Max(maxRouteElevationFt', flightplanAltFt')
               IN  maxHeight' = IF simData'.valid /\ showAircraft' /\ route' # <<>>
                                THEN Max(top, simData'.alt)
                                ELSE top]_vars

\* C20 witness: a profile over ground of more than 1000 ft is on display, projected
\* below an aircraft that flies above the cruise altitude and above the rounded
\* elevation of the route
AxisTopWitness ==
    /\ legList.maxRouteElevation > 1000
    /\ maxRouteElevationFt = RoundedElevation(legList.maxRouteElevation)
    /\ maxRouteElevationFt # legList.maxRouteElevation + 1000
    /\ simData.valid /\ showAircraft /\ route # <<>>
    /\ maxHeight = simData.alt
    /\ maxHeight > maxRouteElevationFt
    /\ maxHeight > flightplanAltFt


\* The pixel of every retained sample of a leg under the scales on display
PixelsOf(leg, nan) ==
    [i \in 1 .. Len(leg.elevation) |->
        <<PixelX(leg.distances[i], horizScale, nan),
          PixelY(leg.elevation[i].alt, height - Y0, vertScale, nan)>>]

\* The greatest element of a set of numbers
SetMax(S) == CHOOSE m \in S : \A j \in S : j <= m

\* The points of pts at the indices kept are the ones appended (line 165): a point is
\* appended if and only if lastPt is null, it is the last of pts, or it lies more than
\* 2 pixels in Manhattan distance from lastPt; lastPt is the point of pts appended
\* last, or before if none was. QPoint::isNull holds of the point (0, 0): of the point
\* lastPt is declared as, and of a point appended at the pixel (0, 0) as well
PixelThinned(pts, kept, before) ==
    \A i \in 1 .. Len(pts) :
        LET earlier == {j \in kept : j < i}
            lastPt == IF earlier = {} THEN before ELSE pts[SetMax(earlier)]
        IN  i \in kept <=>
                \/ IsNull(lastPt)
                \/ i = Len(pts)
                \/ ManhattanLength(lastPt, pts[i]) > 2

\* The points of pts at the indices kept, from index i on
RECURSIVE Pick(_, _, _)
Pick(pts, kept, i) ==
    IF i > Len(pts) THEN <<>>
    ELSE (IF i \in kept THEN <<pts[i]>> ELSE <<>>) \o Pick(pts, kept, i + 1)

\* The terrain points of the polygon from leg n on, thinned by the rule; perLeg:
\* lastPt is the null point at the first point of every leg, else at the first point
\* of the first leg only, and the last point of the leg before at the first point of
\* a later leg
RECURSIVE ThinnedPoints(_, _, _, _)
ThinnedPoints(legs, n, nan, perLeg) ==
    IF n > Len(legs) THEN <<>>
    ELSE LET pts == PixelsOf(legs[n], nan)
             before == IF perLeg \/ n = 1 THEN <<0, 0>>
                       ELSE PixelsOf(legs[n - 1], nan)[Len(legs[n - 1].elevation)]
             kept == CHOOSE k \in SUBSET (1 .. Len(pts)) :
                         PixelThinned(pts, k, before)
         IN  Pick(pts, kept, 1) \o ThinnedPoints(legs, n + 1, nan, perLeg)

\* The polygon on display is made of the two lower corners and, between them, the
\* terrain points thinned by the rule
PolygonThinned(perLeg) ==
    poly # <<>> =>
        \E nan \in NanChoices(legList) :
            poly = <<(<<X0, height>>)>>
                       \o ThinnedPoints(legList.elevationLegs, 1, nan, perLeg)
                       \o <<(<<width - X0, height>>)>>

\* C21 as claimed, for a profile of positive length (every cast is defined): a
\* terrain point is in the polygon if and only if it is the first point overall, the
\* last point of its leg, or more than 2 pixels in Manhattan distance from the point
\* appended last (or the point appended last lies at the pixel (0, 0))
ThinnedFromFirstOverall == legList.totalDistance > 0 => PolygonThinned(FALSE)

\* C21 amended: a terrain point is in the polygon if and only if it is the first
\* point of its leg, the last point of its leg, more than 2 pixels in Manhattan
\* distance from the point of its leg appended last, or the point of its leg appended
\* last lies at the pixel (0, 0), which isNull() does not tell from no point
ThinnedFromFirstOfLeg == PolygonThinned(TRUE)

\* C21 witness: in a narrow widget the second leg of a profile of eight samples
\* begins with the point the first leg ends with, both are in the polygon, and of the
\* other six samples at least two were left out
ThinnedFromFirstOfLegWitness ==
    /\ Len(legList.elevationLegs) = 2
    /\ legList.totalNumPoints = 8
    /\ width = NarrowWidth
    /\ Len(poly) <= 8
    /\ \E i \in 2 .. Len(poly) - 2 : poly[i] = poly[i + 1]


\* C22 as claimed: once updateScreenCoords has run, the polygon has at most as many
\* vertices as the profile has retained samples
VerticesAtMostSamples ==
    poly # <<>> => Len(poly) <= legList.totalNumPoints

\* C22 amended: once updateScreenCoords has run, the polygon has its two lower
\* corners and between them at most as many vertices as the profile has retained
\* samples
VerticesAtMostSamplesAndCorners ==
    poly # <<>> =>
        /\ Len(poly) >= 2
        /\ Len(poly) <= legList.totalNumPoints + 2
        /\ poly[1] = <<X0, height>>
        /\ poly[Len(poly)] = <<width - X0, height>>

\* C22 witness: in a wide widget every one of the eight samples of a profile is a
\* vertex, between the two corners
VerticesAtMostSamplesWitness ==
    /\ legList.totalNumPoints = 8
    /\ legList.totalDistance > 0
    /\ width = WidgetWidth
    /\ Len(poly) = 10


\* C23: once updateScreenCoords has run on a profile of positive total distance in a
\* widget at least as wide as its two margins, waypointX has one entry per leg and
\* one more, every entry lies between X0 and X0 + w, the entries do not decrease, and
\* the last one is X0 + w
WaypointXInRange ==
    (legList.totalDistance > 0 /\ width - X0 * 2 >= 0) =>
        /\ Len(waypointX) = Len(legList.elevationLegs) + 1
        /\ \A i \in 1 .. Len(waypointX) :
                /\ waypointX[i] >= X0
                /\ waypointX[i] <= X0 + (width - X0 * 2)
        /\ \A i \in 2 .. Len(waypointX) : waypointX[i - 1] <= waypointX[i]
        /\ waypointX[Len(waypointX)] = X0 + (width - X0 * 2)

\* C23 witness: the profile of a route of three waypoints that lie apart is on
\* display in the narrow widget: the second waypoint is drawn between the margins
WaypointXInRangeWitness ==
    /\ width = NarrowWidth
    /\ Len(waypointX) = 3
    /\ waypointX[1] = X0
    /\ waypointX[2] > X0
    /\ waypointX[2] < waypointX[3]


\* C30 as claimed: once updateScreenCoords has run, whenever the stored position of
\* the aircraft is valid, the aircraft is shown and the plan is not empty, the top of
\* the altitude axis is at least the stored altitude of the aircraft
AircraftBelowAxisTop ==
    (poly # <<>> /\ simData.valid /\ showAircraft /\ ~IsFlightplanEmpty) =>
        maxHeight >= simData.alt

(* ========================= properties of the query ========================= *)

\* The profile on display has a positive length and the widget is wider than its two
\* margins: the scale is a positive number
ScaleDefined == legList.totalDistance > 0 /\ width - X0 * 2 > 0

\* The first of the waypoints recorded at the x of waypoint k (counted from 1)
FirstAt(xs, k) == CHOOSE j \in 1 .. k : xs[j] = xs[k] /\ \A i \in 1 .. j - 1 : xs[i] # xs[k]

\* The cumulative distance of waypoint j (counted from 1) of the profile
CumulativeAt(ll, j) ==
    IF j <= Len(ll.elevationLegs) THEN ll.elevationLegs[j].distances[1]
    ELSE ll.totalDistance

\* The float v is a number less than the distance of one pixel away from d (for a
\* positive scale)
WithinOnePixel(v, d) ==
    LET diff == FSub(v, FromInt(d))
        pixel == FDiv(FromInt(horizScale[2]), FromInt(horizScale[1]))
    IN  /\ v.cls = "num"
        /\ FLess(diff, pixel)
        /\ FLess(FNeg(pixel), diff)

\* C24 as claimed, for a waypoint that starts a leg and is drawn right of the
\* waypoint before it: a query at its recorded x selects the leg it starts, with the
\* waypoint as "from" and the distance from the leg's first distance near zero
QueryAtWaypointStartsLeg ==
    [][ScaleDefined =>
        \A k \in 1 .. Len(legList.elevationLegs) :
            (/\ k > 1 => waypointX[k - 1] < waypointX[k]
             /\ MouseMoveEvent(waypointX[k]))
            => /\ hover'.what = "highlight"
               /\ hover'.index = k - 1
               /\ hover'.from = legList.routeMapObjects[k]
               /\ WithinOnePixel(hover'.legdistpart, 0)]_vars

\* C24 amended: a query at the recorded x of a waypoint selects the leg that ends at
\* the first waypoint j recorded at that x, with that waypoint as "to", the query
\* distance within a pixel of the waypoint's cumulative distance and so the distance
\* from the leg's first distance within a pixel of the length of the leg; if j is the
\* first waypoint of the route, the first leg is selected, with it as "from" and the
\* distance from the leg's first distance 0
QueryAtWaypointEndsLeg ==
    [][ScaleDefined =>
        \A x \in Range(waypointX) :
            MouseMoveEvent(x) =>
                LET j == FirstAt(waypointX, CHOOSE k \in 1 .. Len(waypointX) : waypointX[k] = x)
                IN  /\ hover'.what = "highlight"
                    /\ hover'.x = x
                    /\ hover'.index = Max(j - 2, 0)
                    /\ WithinOnePixel(hover'.distance, CumulativeAt(legList, j))
                    /\ IF j = 1
                       THEN /\ hover'.from = legList.routeMapObjects[1]
                            /\ hover'.legdistpart = FZero
                       ELSE /\ hover'.to = legList.routeMapObjects[j]
                            /\ WithinOnePixel(hover'.legdistpart, hover'.legdist)]_vars

\* C24 witness: three waypoints are drawn apart, and the query at the x of the second
\* one has selected the first leg, 3 nm long, with the second waypoint as "to"
QueryAtWaypointWitness ==
    /\ ScaleDefined
    /\ Len(waypointX) = 3
    /\ waypointX[1] < waypointX[2] /\ waypointX[2] < waypointX[3]
    /\ hover.what = "highlight"
    /\ hover.x = waypointX[2]
    /\ hover.index = 0
    /\ hover.to = legList.routeMapObjects[2]
    /\ hover.legdist = 3
    /\ WithinOnePixel(hover.legdistpart, 3)


\* C25 as claimed: the two sample indices of a query bracket the query distance in
\* the distances of the selected leg, they are equal or adjacent, and the altitude
\* shown is half the absolute value of the sum of the two samples' altitudes
QueryBrackets ==
    [][ScaleDefined =>
        \A mouseX \in MouseXs :
            (MouseMoveEvent(mouseX) /\ hover'.what = "highlight") =>
                LET leg == legList.elevationLegs[hover'.index + 1]
                    low == hover'.indexLowDist
                    up == hover'.indexUpperDist
                    v == hover'.distance
                IN  /\ v.cls = "num"
                    /\ ~ValueLess(v, leg.distances[low + 1])
                    /\ ~ElemLess(leg.distances[up + 1], v)
                    /\ up \in {low, low + 1}
                    /\ hover'.alt = <<Abs(leg.elevation[low + 1].alt
                                            + leg.elevation[up + 1].alt), 2>>]_vars


\* C26: in every state and for every place of the mouse, the query against a profile
\* without legs returns and shows nothing; against any other profile x is brought
\* between the margins, the index of the leg is a position of legList.elevationLegs,
\* it and the one after are positions of the snapshot of the waypoints, and the two
\* indices of the samples are positions of the leg's samples; no query handled has
\* read outside a vector
QueryInBounds ==
    /\ hover.what # "undefined"
    /\ \A mouseX \in MouseXs :
            LET q == Query(mouseX)
            IN  IF legList.elevationLegs = <<>>
                THEN q = [what |-> "ignored"]
                ELSE /\ q.what = "highlight"
                     /\ q.x <= width - X0
                     /\ q.x >= X0 \/ q.x = width - X0
                     /\ q.x = mouseX \/ q.x = X0 \/ q.x = width - X0
                     /\ q.index \in 0 .. Len(legList.elevationLegs) - 1
                     /\ q.index + 1 \in 0 .. Len(legList.routeMapObjects) - 1
                     /\ LET leg == legList.elevationLegs[q.index + 1]
                        IN  /\ q.indexLowDist \in 0 .. Len(leg.elevation) - 1
                            /\ q.indexUpperDist \in 0 .. Len(leg.elevation) - 1
                            /\ Len(leg.distances) = Len(leg.elevation)

\* C26 witness: the widget is narrower than its two margins and shows a profile of
\* two legs; a query was handled with x left of the left margin, and it selected the
\* first leg
QueryInBoundsWitness ==
    /\ width - X0 * 2 < 0
    /\ Len(legList.elevationLegs) = 2
    /\ legList.totalDistance > 0
    /\ hover.what = "highlight"
    /\ hover.x = width - X0
    /\ hover.index = 0

=============================================================================
